---- MODULE Spec2Model ----
(***************************************************************************)
(* Model of the face-emotion inference pipeline of obs-plugintemplate:     *)
(* InferenceWorker (single-slot queue, worker thread, result mailbox),     *)
(* FaceTracker and the probability normalizer.                             *)
(*                                                                         *)
(* Numbers.  Probabilities and classifier outputs are fixed-point integers *)
(* in units of 1/Q.  Timestamps are integers in units of TickMs            *)
(* milliseconds (the code's uint64 nanoseconds, scaled).                   *)
(* smoothing_seconds is an integer number of milliseconds.                 *)
(***************************************************************************)
EXTENDS Integers, Sequences, FiniteSets, TLC

\* ------------------------------------------------------------------ bounds
\* Largest frame timestamp the caller submits (in ticks).
MaxTs == 1
\* Number of Start calls the control thread makes.
MaxStarts == 2
\* Number of UpdateConfig calls.
MaxUpdates == 1
\* direct calls made on a FaceTracker, and the last timestamp (in ticks) passed
MaxCalls == 3
MaxTick == 2
\* Last timestamp of a frame given to FilterVideo, in ticks of 1/60 s.
MaxFrame == 6
\* calls of RunInference by itself
MaxCycles == 2

\* --------------------------------------------------------- program constants
kMaxQueueSize == 1
kEmotionClassCount == 8
\* kIouThreshold = 0.2f as the fraction kIouNum / kIouDen
kIouNum == 1
kIouDen == 5
\* fixed-point unit of probabilities: 1.0 = Q
Q == 1000
\* one timestamp tick in milliseconds
TickMs == 100
\* the 1/15 s default elapsed time, in milliseconds
DefaultDtMs == 67

Max(a, b) == IF a >= b THEN a ELSE b
Min(a, b) == IF a <= b THEN a ELSE b

\* ------------------------------------------------------------------ cv::Rect
Rect(x, y, w, h) == [x |-> x, y |-> y, width |-> w, height |-> h]

RectEmpty(r) == r.width <= 0 \/ r.height <= 0

RectArea(r) == r.width * r.height

\* the rectangle from (x1, y1) to (x2, y2), all-zero when it has no area
RectSpan(x1, y1, x2, y2) ==
  IF x2 - x1 <= 0 \/ y2 - y1 <= 0 THEN Rect(0, 0, 0, 0) ELSE Rect(x1, y1, x2 - x1, y2 - y1)

\* cv::Rect operator& : the intersection, or the all-zero Rect when disjoint
RectAnd(a, b) ==
  RectSpan(Max(a.x, b.x), Max(a.y, b.y),
           Min(a.x + a.width, b.x + b.width), Min(a.y + a.height, b.y + b.height))

ClampRectToFrame(rect, width, height) == RectAnd(rect, Rect(0, 0, width, height))

\* lines 37-40: the clamped square, unless it degenerated
SquareOrBox(rect, square, frame_width, frame_height) ==
  IF square.width <= 1 \/ square.height <= 1
  THEN ClampRectToFrame(rect, frame_width, frame_height)
  ELSE square

\* lines 30-35: the square of the given side around the centre of rect, clamped
SquareAround(rect, side, frame_width, frame_height) ==
  ClampRectToFrame(
    Rect((rect.x + (rect.width \div 2)) - (side \div 2),
         (rect.y + (rect.height \div 2)) - (side \div 2), side, side),
    frame_width, frame_height)

MakeSquareRect(rect, frame_width, frame_height) ==
  IF RectEmpty(rect) THEN rect
  ELSE SquareOrBox(rect,
                   SquareAround(rect, Max(rect.width, rect.height), frame_width, frame_height),
                   frame_width, frame_height)

\* ------------------------------------------------------------ emotion table
Emotions == {"Joie", "Tristesse", "Colere", "Peur", "Surprise", "Degout", "Neutre", "Incertain"}

\* model_index is the 0-based index of the classifier output
EmotionFromModelIndex(model_index) ==
  CASE model_index = 0 -> "Neutre"
    [] model_index = 1 -> "Joie"
    [] model_index = 2 -> "Surprise"
    [] model_index = 3 -> "Tristesse"
    [] model_index = 4 -> "Colere"
    [] model_index = 5 -> "Degout"
    [] model_index = 6 -> "Peur"
    [] model_index = 7 -> "Incertain"
    [] OTHER -> "Incertain"

\* a std::array<float, 8> is a sequence of 8 fixed-point integers (index i of
\* the code is element i + 1)
ZeroProbs == [i \in 1..kEmotionClassCount |-> 0]

RECURSIVE SumTo(_, _)
SumTo(v, n) == IF n = 0 THEN 0 ELSE v[n] + SumTo(v, n - 1)

SumVec(v) == SumTo(v, Len(v))

RECURSIVE MaxTo(_, _)
MaxTo(v, n) == IF n = 1 THEN v[1] ELSE Max(v[n], MaxTo(v, n - 1))

MaxVec(v) == MaxTo(v, Len(v))

\* --------------------------------------------------- probability normalizer
\* exp(-k/4) in units of 1/Q, by repeated multiplication with exp(-1/4) = 0.779
RECURSIVE ExpNegQuarter(_)
ExpNegQuarter(k) ==
  IF k <= 0 THEN Q
  ELSE IF k >= 40 THEN 0
  ELSE (ExpNegQuarter(k - 1) * 779) \div Q

\* std::exp(x) for x <= 0, x in units of 1/Q
ExpNeg(x) == ExpNegQuarter(((0 - x) * 4) \div Q)

LooksLikeProbabilities(values) ==
  /\ \A i \in 1..kEmotionClassCount : ~(values[i] < -1 \/ values[i] > Q + 1)
  /\ SumVec(values) > 850
  /\ SumVec(values) < 1150

\* lines 353-356: every value clamped to [0, 1]
ClampedProbs(model_output) ==
  [i \in 1..kEmotionClassCount |-> Max(0, Min(Q, model_output[i]))]

\* value /= sum for every value
DivideBySum(probs, sum) == [i \in 1..kEmotionClassCount |-> (probs[i] * Q) \div sum]

\* lines 369-372: exp(value - max_logit) for every value
ExpsOf(model_output, max_logit) ==
  [i \in 1..kEmotionClassCount |-> ExpNeg(model_output[i] - max_logit)]

\* lines 374-383 on the exponentials and their sum
SoftmaxFrom(exps, sum) ==
  IF sum <= 0
  THEN [i \in 1..kEmotionClassCount |-> Q \div kEmotionClassCount]
  ELSE DivideBySum(exps, sum)

\* lines 366-383
SoftmaxOf(model_output, exps) == SoftmaxFrom(exps, SumVec(exps))

\* lines 351-364 on the clamped values, falling through to the softmax
NormalizeFrom(model_output, clamped, sum) ==
  IF LooksLikeProbabilities(model_output) /\ sum > 0
  THEN DivideBySum(clamped, sum)
  ELSE SoftmaxOf(model_output, ExpsOf(model_output, MaxVec(model_output)))

NormalizeClamped(model_output, clamped) ==
  NormalizeFrom(model_output, clamped, SumVec(clamped))

NormalizeEmotionOutput(model_output) ==
  NormalizeClamped(model_output, ClampedProbs(model_output))

\* ------------------------------------------------------------- FaceTracker
\* lines 65-71 on the intersection and the area of the union
IoUFrom(intersection, union_area) ==
  IF RectEmpty(intersection) THEN [num |-> 0, den |-> 1]
  ELSE IF union_area <= 0 THEN [num |-> 0, den |-> 1]
  ELSE [num |-> RectArea(intersection), den |-> union_area]

IoUOf(lhs, rhs, intersection) ==
  IoUFrom(intersection, RectArea(lhs) + RectArea(rhs) - RectArea(intersection))

\* IoU as the exact fraction num / den (the float quotient of two small
\* integers); 0.0f is 0 / 1
ComputeIoU(lhs, rhs) == IoUOf(lhs, rhs, RectAnd(lhs, rhs))

\* variant: a >= b
FracGreaterOrEqual(a, b) == a.num * b.den >= b.num * a.den

\* a > b on fractions with positive denominators
FracGreater(a, b) == a.num * b.den > b.num * a.den

Clamp01(value) == Max(0, Min(Q, value))

\* variant: without the early return for smoothing_seconds <= 0
ComputeEmaAlphaAlwaysExp(dt_ms, smoothing_ms) ==
  Clamp01(Q - ExpNegQuarter((Max(0, dt_ms) * 4) \div Max(1, smoothing_ms)))

\* dt_ms, smoothing_ms in milliseconds; the result is alpha in units of 1/Q
ComputeEmaAlpha(dt_ms, smoothing_ms) ==
  IF smoothing_ms <= 0 THEN Q
  ELSE Clamp01(Q - ExpNegQuarter((Max(0, dt_ms) * 4) \div Max(1, smoothing_ms)))

\* lines 96-101: the better of the best index so far and index n
BetterIndex(probs, b, n) == IF probs[n] > probs[b] THEN n ELSE b

\* index (1-based) of the first maximum of probs
RECURSIVE BestIndexTo(_, _)
BestIndexTo(probs, n) ==
  IF n = 1 THEN 1 ELSE BetterIndex(probs, BestIndexTo(probs, n - 1), n)

\* variant: the label of the winning index whatever its value
StableLabelFromNoThreshold(best_index, best_value, confidence_threshold) ==
  [label |-> EmotionFromModelIndex(best_index - 1), conf |-> Clamp01(best_value)]

\* lines 103-108 on the winning index and its value
StableLabelFrom(best_index, best_value, confidence_threshold) ==
  [label |-> IF best_value < confidence_threshold
             THEN "Incertain"
             ELSE EmotionFromModelIndex(best_index - 1),
   conf  |-> Clamp01(best_value)]

StableLabelAt(probs, best_index, confidence_threshold) ==
  StableLabelFrom(best_index, probs[best_index], confidence_threshold)

ComputeStableLabel(probs, confidence_threshold) ==
  StableLabelAt(probs, BestIndexTo(probs, kEmotionClassCount), confidence_threshold)

\* std::sort by bounding-box area, descending.  For the handful of elements
\* sorted here std::sort is an insertion sort, which keeps equal elements in
\* their input order.
RECURSIVE InsertByArea(_, _)
InsertByArea(sorted, e) ==
  IF sorted = << >> THEN << e >>
  ELSE IF RectArea(e.bbox) > RectArea(sorted[1].bbox)
  THEN << e >> \o sorted
  ELSE << sorted[1] >> \o InsertByArea(Tail(sorted), e)

RECURSIVE SortByAreaDesc(_)
SortByAreaDesc(s) ==
  IF s = << >> THEN << >>
  ELSE InsertByArea(SortByAreaDesc(SubSeq(s, 1, Len(s) - 1)), s[Len(s)])

\* variant: the detections at the end of the sorted list are kept
LimitFacesKeepSmallest(sorted, clamped_max_faces) ==
  IF Len(sorted) > clamped_max_faces
  THEN SubSeq(sorted, Len(sorted) - clamped_max_faces + 1, Len(sorted))
  ELSE sorted

\* variant: no truncation to max_faces
LimitFacesKeepAll(sorted, clamped_max_faces) == sorted

\* lines 133-136: at most max(1, max_faces) detections are kept
LimitFaces(sorted, clamped_max_faces) ==
  IF Len(sorted) > clamped_max_faces THEN SubSeq(sorted, 1, clamped_max_faces) ELSE sorted

\* no pair: track = 0 stands for the code's -1
NoPair == [iou |-> [num |-> 0, den |-> 1], track |-> 0, det |-> 0]

\* lines 152-161: the pair (track ti, detection di) with its IoU, NoPair when
\* one of the two is already assigned
PairAt(tracks, limited, track_used, detection_used, ti, di) ==
  IF ti \in track_used \/ di \in detection_used THEN NoPair
  ELSE [iou |-> ComputeIoU(tracks[ti].bbox, limited[di].bbox), track |-> ti, det |-> di]

\* variant: a pair also replaces the best so far when its IoU is equal
BetterPairLastWins(best, pair) ==
  IF pair.track # 0 /\ FracGreaterOrEqual(pair.iou, best.iou) /\ FracGreater(pair.iou, NoPair.iou)
  THEN pair ELSE best

\* lines 162-166: a pair replaces the best so far when its IoU is greater
BetterPair(best, pair) == IF FracGreater(pair.iou, best.iou) THEN pair ELSE best

\* One pass of the two nested for-loops of the association: pair p is
\* (track (p-1) div D + 1, detection (p-1) mod D + 1), D the number of kept
\* detections
RECURSIVE ScanPairs(_, _, _, _, _, _)
ScanPairs(tracks, limited, track_used, detection_used, p, best) ==
  IF p > Len(tracks) * Len(limited) THEN best
  ELSE ScanPairs(tracks, limited, track_used, detection_used, p + 1,
                 BetterPair(best, PairAt(tracks, limited, track_used, detection_used,
                                         ((p - 1) \div Len(limited)) + 1,
                                         ((p - 1) % Len(limited)) + 1)))

\* the while (true) loop: take the best remaining pair until none exceeds
\* kIouThreshold.  Result: track_to_detection (0 = unmatched) and detection_used
RECURSIVE GreedyAssign(_, _, _, _, _)
RECURSIVE GreedyStep(_, _, _, _, _, _)
\* variant: a matched detection is not marked as used
GreedyStepDetectionFree(tracks, limited, track_used, detection_used, track_to_detection, best) ==
  IF best.track = 0 \/ best.det = 0
  THEN [track_to_detection |-> track_to_detection, detection_used |-> detection_used]
  ELSE GreedyAssign(tracks, limited, track_used \cup {best.track}, detection_used,
                    [track_to_detection EXCEPT ![best.track] = best.det])

GreedyStep(tracks, limited, track_used, detection_used, track_to_detection, best) ==
  IF best.track = 0 \/ best.det = 0
  THEN [track_to_detection |-> track_to_detection, detection_used |-> detection_used]
  ELSE GreedyAssign(tracks, limited,
                    track_used \cup {best.track},
                    detection_used \cup {best.det},
                    [track_to_detection EXCEPT ![best.track] = best.det])

GreedyAssign(tracks, limited, track_used, detection_used, track_to_detection) ==
  GreedyStep(tracks, limited, track_used, detection_used, track_to_detection,
             ScanPairs(tracks, limited, track_used, detection_used, 1,
                       [iou |-> [num |-> kIouNum, den |-> kIouDen], track |-> 0, det |-> 0]))

Indices(n) == [i \in 1..n |-> i]

\* indices of the tracks that were matched, in track order
MatchedTracks(track_to_detection) ==
  SelectSeq(Indices(Len(track_to_detection)), LAMBDA ti : track_to_detection[ti] # 0)

\* indices of the kept detections that were not matched, in detection order
FreshDetections(limited, detection_used) ==
  SelectSeq(Indices(Len(limited)), LAMBDA di : di \notin detection_used)

\* variant: the difference of the two timestamps whenever the track has one
ElapsedMsAnyOrder(last_seen_ns, timestamp_ns) ==
  IF last_seen_ns > 0
  THEN (timestamp_ns - last_seen_ns) * TickMs
  ELSE DefaultDtMs

\* elapsed time of a matched track in milliseconds
ElapsedMs(last_seen_ns, timestamp_ns) ==
  IF last_seen_ns > 0 /\ timestamp_ns >= last_seen_ns
  THEN (timestamp_ns - last_seen_ns) * TickMs
  ELSE DefaultDtMs

EmaBlend(alpha, raw, ema) ==
  [i \in 1..kEmotionClassCount |-> (alpha * raw[i] + (Q - alpha) * ema[i]) \div Q]

\* a TrackState with its stable label
TrackWith(track_id, bbox, ema_probs, stable, timestamp_ns) ==
  [track_id |-> track_id, bbox |-> bbox, ema_probs |-> ema_probs,
   stable_label |-> stable.label, stable_conf |-> stable.conf,
   last_seen_ns |-> timestamp_ns]

LabelledTrack(track_id, bbox, ema_probs, timestamp_ns, confidence_threshold) ==
  TrackWith(track_id, bbox, ema_probs,
            ComputeStableLabel(ema_probs, confidence_threshold), timestamp_ns)

\* lines 189-209: a matched track after the update
UpdatedTrack(track, detection, timestamp_ns, smoothing_seconds, confidence_threshold) ==
  LabelledTrack(track.track_id, detection.bbox,
                EmaBlend(ComputeEmaAlpha(ElapsedMs(track.last_seen_ns, timestamp_ns),
                                         smoothing_seconds),
                         detection.probs_raw, track.ema_probs),
                timestamp_ns, confidence_threshold)

\* variant: a new track starts from a zero vector and without a timestamp
SpawnedTrackBlank(track_id, detection, timestamp_ns, confidence_threshold) ==
  LabelledTrack(track_id, detection.bbox, ZeroProbs, 0, confidence_threshold)

\* lines 219-229: the track spawned by an unmatched detection
SpawnedTrack(track_id, detection, timestamp_ns, confidence_threshold) ==
  LabelledTrack(track_id, detection.bbox, detection.probs_raw, timestamp_ns,
                confidence_threshold)

FaceOf(track, detection, timestamp_ns) ==
  [track_id |-> track.track_id, bbox |-> detection.bbox, probs_raw |-> detection.probs_raw,
   label |-> track.stable_label, confidence |-> track.stable_conf, ts_ns |-> timestamp_ns]

\* variant: the tracks that were not matched are carried forward as they are
NextTracksKeepLost(tracks, next_track_id, limited, t2d, matched, fresh, timestamp_ns, smoothing_seconds, confidence_threshold) ==
  [k \in 1..Len(matched) |->
     UpdatedTrack(tracks[matched[k]], limited[t2d[matched[k]]], timestamp_ns,
                  smoothing_seconds, confidence_threshold)]
  \o [k \in 1..Len(fresh) |->
     SpawnedTrack(next_track_id + (k - 1), limited[fresh[k]], timestamp_ns,
                  confidence_threshold)]
  \o SelectSeq(tracks, LAMBDA track : \A k \in 1..Len(matched) :
                                        tracks[matched[k]].track_id # track.track_id)

\* next_tracks: the matched tracks in track order, then the spawned ones in
\* detection order
NextTracks(tracks, next_track_id, limited, t2d, matched, fresh, timestamp_ns, smoothing_seconds, confidence_threshold) ==
  [k \in 1..Len(matched) |->
     UpdatedTrack(tracks[matched[k]], limited[t2d[matched[k]]], timestamp_ns,
                  smoothing_seconds, confidence_threshold)]
  \o [k \in 1..Len(fresh) |->
     SpawnedTrack(next_track_id + (k - 1), limited[fresh[k]], timestamp_ns,
                  confidence_threshold)]

\* output_faces before the final sort, parallel to next_tracks
OutputFaces(next_tracks, limited, t2d, matched, fresh, timestamp_ns) ==
  [k \in 1..Len(matched) |-> FaceOf(next_tracks[k], limited[t2d[matched[k]]], timestamp_ns)]
  \o [k \in 1..Len(fresh) |->
     FaceOf(next_tracks[Len(matched) + k], limited[fresh[k]], timestamp_ns)]

\* lines 235-240
UpdateResult(next_tracks, next_track_id, faces) ==
  [tracks |-> next_tracks, next_track_id |-> next_track_id, faces |-> SortByAreaDesc(faces)]

UpdateBuilt(next_tracks, next_track_id, limited, t2d, matched, fresh, timestamp_ns) ==
  UpdateResult(next_tracks, next_track_id + Len(fresh),
               OutputFaces(next_tracks, limited, t2d, matched, fresh, timestamp_ns))

\* lines 179-233 given the matched tracks and the unmatched detections
UpdateMatched(tracks, next_track_id, limited, t2d, matched, fresh, timestamp_ns, smoothing_seconds, confidence_threshold) ==
  UpdateBuilt(NextTracks(tracks, next_track_id, limited, t2d, matched, fresh, timestamp_ns,
                         smoothing_seconds, confidence_threshold),
              next_track_id, limited, t2d, matched, fresh, timestamp_ns)

\* lines 179-240 given the association
UpdateAssigned(tracks, next_track_id, limited, assign, timestamp_ns, smoothing_seconds, confidence_threshold) ==
  UpdateMatched(tracks, next_track_id, limited, assign.track_to_detection,
                MatchedTracks(assign.track_to_detection),
                FreshDetections(limited, assign.detection_used),
                timestamp_ns, smoothing_seconds, confidence_threshold)

\* lines 138-240 given the kept detections
UpdateLimited(tracks, next_track_id, limited, timestamp_ns, smoothing_seconds, confidence_threshold) ==
  UpdateAssigned(tracks, next_track_id, limited,
                 GreedyAssign(tracks, limited, {}, {}, [i \in 1..Len(tracks) |-> 0]),
                 timestamp_ns, smoothing_seconds, confidence_threshold)

\* variant: an Update without detections leaves the tracks alone
FaceTrackerUpdateKeepTracks(tracks, next_track_id, detections, timestamp_ns, max_faces, smoothing_seconds, confidence_threshold) ==
  IF detections = << >>
  THEN [tracks |-> tracks, next_track_id |-> next_track_id, faces |-> << >>]
  ELSE UpdateLimited(tracks, next_track_id,
                     LimitFaces(SortByAreaDesc(detections), Max(1, max_faces)),
                     timestamp_ns, smoothing_seconds, confidence_threshold)

\* FaceTracker::Update on the tracker state (tracks, next_track_id); the
\* result is the new tracker state and the returned output_faces
FaceTrackerUpdate(tracks, next_track_id, detections, timestamp_ns, max_faces, smoothing_seconds, confidence_threshold) ==
  IF detections = << >>
  THEN [tracks |-> << >>, next_track_id |-> next_track_id, faces |-> << >>]
  ELSE UpdateLimited(tracks, next_track_id,
                     LimitFaces(SortByAreaDesc(detections), Max(1, max_faces)),
                     timestamp_ns, smoothing_seconds, confidence_threshold)

\* variant: Reset also restarts the id counter
FaceTrackerResetIds(tracks, next_track_id) ==
  [tracks |-> << >>, next_track_id |-> 1]

\* FaceTracker::Reset on the tracker state
FaceTrackerReset(tracks, next_track_id) ==
  [tracks |-> << >>, next_track_id |-> next_track_id]

\* ------------------------------------------------ InferenceWorker: one cycle
\* std::round(n / d) for d > 0: nearest integer, halves away from zero
RoundDiv(n, d) ==
  IF n >= 0 THEN (2 * n + d) \div (2 * d) ELSE 0 - ((2 * (0 - n) + d) \div (2 * d))

\* cv::Mat::empty() of the submitted pixel buffer
FrameEmpty(task) == task.cols <= 0 \/ task.rows <= 0

\* is the frame downscaled before detection (scale < 1)?
Downscaled(task, config) ==
  config.inference_width > 0 /\ task.cols > config.inference_width

\* std::round(v / scale) with scale = inference_width / cols
MapToSource(v, task, config) ==
  IF Downscaled(task, config)
  THEN RoundDiv(v * task.cols, config.inference_width)
  ELSE v

\* variant: the box is rescaled but not clipped
MappedBoxUnclipped(task, config, row) ==
  Rect(MapToSource(row.x, task, config), MapToSource(row.y, task, config),
       MapToSource(row.width, task, config), MapToSource(row.height, task, config))

\* lines 265-270: the row's box in source coordinates, clipped to the frame
MappedBox(task, config, row) ==
  ClampRectToFrame(
    Rect(MapToSource(row.x, task, config), MapToSource(row.y, task, config),
         MapToSource(row.width, task, config), MapToSource(row.height, task, config)),
    task.source_width, task.source_height)

\* cv::Mat::operator()(roi) throws unless roi lies inside the pixel buffer
CropThrows(task, roi) ==
  ~(/\ 0 <= roi.x /\ 0 <= roi.width /\ roi.x + roi.width <= task.cols
    /\ 0 <= roi.y /\ 0 <= roi.height /\ roi.y + roi.height <= task.rows)

\* lines 323-326: the first values of the output, zero-filled to 8
PaddedOutput(output) ==
  [i \in 1..kEmotionClassCount |->
     IF i <= Min(kEmotionClassCount, Len(output)) THEN output[i] ELSE 0]

\* InferenceWorker::InferEmotion: cls is the classifier's behaviour on the
\* crop, [throws, output] with output the flattened values it returns
InferEmotion(face_empty, cls) ==
  IF face_empty THEN ZeroProbs
  ELSE IF cls.output = << >> THEN ZeroProbs
  ELSE NormalizeEmotionOutput(PaddedOutput(cls.output))

\* lines 275-277 given the box and the region of interest
RowFace(task, row, bbox, emotion_roi) ==
  IF CropThrows(task, emotion_roi) THEN [kind |-> "throw"]
  ELSE IF ~RectEmpty(emotion_roi) /\ row.cls.throws THEN [kind |-> "throw"]
  ELSE [kind |-> "face",
        det  |-> [bbox |-> bbox,
                  probs_raw |-> InferEmotion(RectEmpty(emotion_roi), row.cls)]]

\* lines 251-277 given the clipped box
RowBoxed(task, scene, row, bbox) ==
  IF scene.cols < 15 THEN [kind |-> "skip"]
  ELSE IF row.score <= 0 THEN [kind |-> "skip"]
  ELSE IF RectEmpty(bbox) THEN [kind |-> "skip"]
  ELSE RowFace(task, row, bbox, MakeSquareRect(bbox, task.source_width, task.source_height))

\* one iteration of the for-loop over the detector rows: "skip" (continue),
\* "throw" (an exception leaves the loop) or "face" with the raw detection
RowOutcome(task, config, scene, row) ==
  RowBoxed(task, scene, row, MappedBox(task, config, row))

\* the try block of RunInference: [caught |-> TRUE] when the catch (...) is
\* taken, else the detections pushed by the loop, in row order
RECURSIVE CollectRows(_, _, _, _, _)
RECURSIVE CollectNext(_, _, _, _, _, _)
\* variant: a skipped row ends the loop
CollectNextSkipEnds(task, config, scene, k, acc, o) ==
  IF o.kind = "throw" THEN [caught |-> TRUE, detections |-> << >>]
  ELSE IF o.kind = "skip" THEN [caught |-> FALSE, detections |-> acc]
  ELSE CollectRows(task, config, scene, k + 1, Append(acc, o.det))

CollectNext(task, config, scene, k, acc, o) ==
  IF o.kind = "throw" THEN [caught |-> TRUE, detections |-> << >>]
  ELSE IF o.kind = "skip" THEN CollectRows(task, config, scene, k + 1, acc)
  ELSE CollectRows(task, config, scene, k + 1, Append(acc, o.det))

CollectRows(task, config, scene, k, acc) ==
  IF k > Len(scene.rows) THEN [caught |-> FALSE, detections |-> acc]
  ELSE CollectNext(task, config, scene, k, acc,
                   RowOutcome(task, config, scene, scene.rows[k]))

DetectFaces(task, config, scene) ==
  IF scene.detect_throws THEN [caught |-> TRUE, detections |-> << >>]
  ELSE IF Len(scene.rows) > 0
  THEN CollectRows(task, config, scene, 1, << >>)
  ELSE [caught |-> FALSE, detections |-> << >>]

\* ------------------------------------------------------------ input domains
\* InferenceWorker::Config values the callers pass (already clamped by the
\* filter): max_faces, inference_width, confidence_threshold (1/Q),
\* smoothing_seconds (ms).  The two differ in every field.
CfgA == [max_faces |-> 3, inference_width |-> 16, confidence_threshold |-> 300,
         smoothing_seconds |-> 600]
CfgB == [max_faces |-> 1, inference_width |-> 8, confidence_threshold |-> 900,
         smoothing_seconds |-> 0]
Configs == {CfgA, CfgB}

\* pixel buffers and source sizes the caller passes: a 16x16 frame, an empty
\* buffer, and a 16x16 buffer with a source width of zero
FrameShapes ==
  { [cols |-> 16, rows |-> 16, source_width |-> 16, source_height |-> 16],
    [cols |-> 0, rows |-> 0, source_width |-> 16, source_height |-> 16],
    [cols |-> 16, rows |-> 16, source_width |-> 0, source_height |-> 16] }

\* classifier behaviours: a probability-like one-hot output and raw logits
ClsOneHot == [throws |-> FALSE, output |-> << Q, 0, 0, 0, 0, 0, 0, 0 >>]
ClsLogits == [throws |-> FALSE, output |-> << 0, 2000, 0, 0, 0, 0, 0, 0 >>]
\* a classifier whose forward pass throws
ClsThrows == [throws |-> TRUE, output |-> << >>]

RowA == [x |-> 1, y |-> 1, width |-> 4, height |-> 4, score |-> 900, cls |-> ClsOneHot]
RowB == [x |-> 5, y |-> 5, width |-> 2, height |-> 2, score |-> 800, cls |-> ClsLogits]
\* the face of RowA on a cycle in which the classifier throws
RowT == [x |-> 1, y |-> 1, width |-> 4, height |-> 4, score |-> 900, cls |-> ClsThrows]

\* what the two models do in one cycle: the detector throws, or returns a
\* matrix of `cols` columns with the given rows (and the classifier may throw
\* on a row)
Scenes ==
  { [detect_throws |-> TRUE,  cols |-> 15, rows |-> << >>],
    [detect_throws |-> FALSE, cols |-> 15, rows |-> << >>],
    [detect_throws |-> FALSE, cols |-> 15, rows |-> << RowA >>],
    [detect_throws |-> FALSE, cols |-> 15, rows |-> << RowT >>] }

Workers == 1..MaxStarts

\* owner of a mutex nobody holds (worker w holds it as w)
Free == 0

NoTask == [timestamp_ns |-> -1, cols |-> 0, rows |-> 0, source_width |-> 0, source_height |-> 0]
NoConfig == [max_faces |-> 0, inference_width |-> 0, confidence_threshold |-> 0,
             smoothing_seconds |-> 0]
\* a value-initialised ResultPacket; cycle is the number of the cycle that
\* produced the packet (history, 0 for none)
EmptyResult == [faces |-> << >>, timestamp_ns |-> 0, valid |-> FALSE, cycle |-> 0]
\* InferenceWorker::Config's default member initialisers (3, 640, 0.30f, 0.6f)
DefaultConfig == [max_faces |-> 3, inference_width |-> 640, confidence_threshold |-> 300,
                  smoothing_seconds |-> 600]

\* ------------------------------------------------------------------- state
VARIABLES
  \* InferenceWorker members
  config_, queue_, latest_result_, worker_thread_, stop_requested_, running_,
  \* FaceTracker members
  tracks_, next_track_id_,
  \* owners of config_mutex_, queue_mutex_, result_mutex_ (Free or the worker thread holding it)
  config_mutex, queue_mutex, result_mutex,
  \* worker threads: position, and the locals task (WorkerLoop), config
  \* (RunInference), detections (WorkerLoop: the faces RunInference returned)
  wpc, task, config, detections,
  \* control thread (Start / Stop): position, operation, arguments, Start count
  cpc, cop, carg, starts,
  \* video thread (SubmitFrame / TryConsumeLatest): position, frame being
  \* submitted, last timestamp used, output arguments of TryConsumeLatest
  vpc, vtask, vclock, out,
  \* number of UpdateConfig calls made
  updates,
  \* history: timestamps discarded by SubmitFrame, number of cycles completed,
  \* packets returned by TryConsumeLatest, config_ as it was at each cycle's
  \* snapshot, configuration values each cycle used, whether a SubmitFrame
  \* overlapped the last Stop,
  \* first track id issued since the last thread start, number of cycles begun
  dropped, cycles, consumed, cycleStartCfg, used, stopClean, firstId, begun,
  \* calls made directly on the FaceTracker: the last call (its arguments, the
  \* tracks it found and the faces it returned), the ids given to new tracks
  \* so far, and the number of calls
  lastCall, issued, calls,
  \* NormalizeEmotionOutput called by itself: its argument model_output and
  \* the vector it returned (empty before the call)
  model_output, normalized,
  \* FaceEmotionFilter members: config_ (the fields FilterVideo reads),
  \* worker_ready_, last_submitted_ts_ns_, latest_faces_, and worker_ as the
  \* filter sees it through SubmitFrame and TryConsumeLatest (its queue and
  \* its mailbox)
  filter_config_, worker_ready_, last_submitted_ts_ns_, latest_faces_, worker_,
  \* history of the filter: timestamp of the last frame FilterVideo was given,
  \* timestamp of the last frame handed to SubmitFrame (0: none), the faces
  \* drawn on the last frame, the last non-empty list of faces drawn, and the
  \* number of detections the last cycle of the worker kept
  fclock, sent, drawn, shown, found,
  \* RunInference called by itself: the frame, the configuration and the
  \* behaviour of the two models in the last call, and the faces it returned
  ran

programVars == << config_, queue_, latest_result_, worker_thread_, stop_requested_, running_,
                  tracks_, next_track_id_ >>
mutexVars   == << config_mutex, queue_mutex, result_mutex >>
workerVars  == << wpc, task, config, detections >>
ctlVars     == << cpc, cop, carg, starts >>
videoVars   == << vpc, vtask, vclock, out >>
historyVars == << dropped, cycles, consumed, cycleStartCfg, used, stopClean, firstId, begun >>
callVars    == << lastCall, issued, calls >>
normVars    == << model_output, normalized >>
\* the variables of the functions called by themselves
filterVars  == << filter_config_, worker_ready_, last_submitted_ts_ns_, latest_faces_, worker_,
                  fclock, sent, drawn, shown, found >>
cycleVars   == << ran >>
unitVars    == << callVars, normVars, filterVars, cycleVars >>
\* everything outside the FaceTracker
pipelineVars == << config_, queue_, latest_result_, worker_thread_, stop_requested_, running_,
                   mutexVars, workerVars, ctlVars, videoVars, updates, historyVars >>
\* everything except the FaceTracker and the history of its direct calls
besideTracker == << pipelineVars, normVars, filterVars, cycleVars >>
vars == << programVars, mutexVars, workerVars, ctlVars, videoVars, updates, historyVars,
           unitVars >>

\* no call made yet
NoCall == [kind |-> "none", detections |-> << >>, timestamp_ns |-> 0, max_faces |-> 0,
           smoothing_seconds |-> 0, confidence_threshold |-> 0,
           tracks_before |-> << >>, next_id_before |-> 0, faces |-> << >>]

\* the arguments of Start when no Start is running
NoArg == [config |-> NoConfig, models_ok |-> FALSE]

NoOut == [faces |-> << >>, timestamp_ns |-> -1, cycle |-> 0]

\* an InferenceWorker as its constructor leaves it, and no direct call made
ProgramInit ==
  /\ config_ = DefaultConfig
  /\ queue_ = << >>
  /\ latest_result_ = EmptyResult
  /\ worker_thread_ = 0
  /\ stop_requested_ = FALSE
  /\ running_ = FALSE
  /\ tracks_ = << >>
  /\ next_track_id_ = 1
  /\ config_mutex = Free /\ queue_mutex = Free /\ result_mutex = Free
  /\ wpc = [w \in Workers |-> "none"]
  /\ task = [w \in Workers |-> NoTask]
  /\ config = [w \in Workers |-> NoConfig]
  /\ detections = [w \in Workers |-> << >>]
  /\ cpc = "idle" /\ cop = "none" /\ carg = NoArg
  /\ starts = 0
  /\ vpc = "idle" /\ vtask = NoTask /\ vclock = -1 /\ out = NoOut
  /\ updates = 0
  /\ dropped = {} /\ cycles = 0 /\ consumed = << >>
  /\ cycleStartCfg = [w \in Workers |-> NoConfig]
  /\ used = [w \in Workers |-> NoConfig]
  /\ stopClean = TRUE /\ firstId = 0 /\ begun = 0
  /\ lastCall = NoCall /\ issued = << >> /\ calls = 0

\* NormalizeEmotionOutput not called
NormIdle == model_output = ZeroProbs /\ normalized = << >>

\* FilterConfig's default member initialisers, for the fields FilterVideo reads
FilterConfigDefault ==
  [enabled |-> TRUE, inference_fps |-> 15, show_box |-> TRUE, show_label |-> TRUE]

\* the worker_ member before any frame is submitted
IdleWorker == [queue |-> << >>, latest_result |-> EmptyResult]

\* the members of a FaceEmotionFilter given their default initialisers
FilterMembers ==
  /\ last_submitted_ts_ns_ = 0
  /\ latest_faces_ = << >>
  /\ worker_ = IdleWorker
  /\ fclock = 0 /\ sent = 0 /\ drawn = << >> /\ shown = << >> /\ found = 0

\* no filter created: the member initialisers alone
FilterIdle ==
  /\ filter_config_ = FilterConfigDefault
  /\ worker_ready_ = FALSE
  /\ FilterMembers

\* RunInference not called by itself
NoRun == [frame |-> NoTask, config |-> NoConfig,
          scene |-> [detect_throws |-> FALSE, cols |-> 0, rows |-> << >>],
          faces |-> << >>]

CycleIdle == ran = NoRun

Init ==
  /\ ProgramInit
  /\ NormIdle
  /\ FilterIdle
  /\ CycleIdle

\* --------------------------------------------------------- history records
\* The history counters count up to HistoryCap and the log of consumed
\* packets keeps its first HistoryCap entries.  While the caller's timestamps
\* are bounded by MaxTs at most MaxTs + 1 frames are accepted and the cap is
\* never reached; it keeps the history finite when frames arrive for ever.
HistoryCap == MaxTs + 2

Tally(n) == IF n < HistoryCap THEN n + 1 ELSE n

Logged(log, entry) == IF Len(log) < HistoryCap THEN Append(log, entry) ELSE log

\* ------------------------------------------------------- condition variable
Waiting == {w \in Workers : wpc[w] = "waiting"}

\* variant: the notification is lost
NotifyOneLost(next_wpc) == next_wpc = wpc

\* queue_cv_.notify_one(): one waiting thread, if any, leaves the wait and
\* goes on to re-acquire queue_mutex_
NotifyOne(next_wpc) ==
  IF Waiting = {} THEN next_wpc = wpc
  ELSE \E w \in Waiting : next_wpc = [wpc EXCEPT ![w] = "lock"]

\* variant: the notification wakes no thread
NotifyAllWakesNone == wpc

\* queue_cv_.notify_all()
NotifyAll == [w \in Workers |-> IF wpc[w] = "waiting" THEN "lock" ELSE wpc[w]]

\* -------------------------------------------------------------- SubmitFrame
\* the positions of the control thread that lie inside Stop()
StopPcs == {"stop_flag", "stop_notify", "stop_join", "stop_clearq", "stop_clearr",
            "stop_finish"}

\* lines 135-143: the running_ / empty test and the construction of the task
SubmitFrame(timestamp_ns, shape) ==
  /\ vpc = "idle"
  /\ vclock' = timestamp_ns
  /\ IF ~running_ \/ FrameEmpty(shape)
     THEN /\ UNCHANGED << vpc, vtask, stopClean >>
     ELSE /\ vpc' = "submit_push"
          /\ vtask' = [timestamp_ns |-> timestamp_ns, cols |-> shape.cols, rows |-> shape.rows,
                       source_width |-> shape.source_width,
                       source_height |-> shape.source_height]
          /\ stopClean' = IF cpc \in StopPcs THEN FALSE ELSE stopClean
  /\ UNCHANGED << programVars, mutexVars, workerVars, ctlVars, out, updates,
                  dropped, cycles, consumed, cycleStartCfg, used, firstId, begun >>
  /\ UNCHANGED unitVars

\* variant: the new frame goes in front of the pending one, which is kept
PushLatestInFront(queue, t) == << t >> \o queue

\* variant: the push without the drop of the pending frame
PushLatestKeepAll(queue, t) == Append(queue, t)

\* lines 147-150 on the queue: drop the oldest when full, then push
PushLatest(queue, t) ==
  IF Len(queue) >= kMaxQueueSize THEN Append(Tail(queue), t) ELSE Append(queue, t)

\* lines 145-151: the scoped_lock block
SubmitPush ==
  /\ vpc = "submit_push"
  /\ queue_mutex = Free
  /\ queue_' = PushLatest(queue_, vtask)
  /\ dropped' = dropped \cup ({queue_[i].timestamp_ns : i \in 1..Len(queue_)}
                             \ {queue_'[i].timestamp_ns : i \in 1..Len(queue_')})
  /\ vpc' = "submit_notify"
  /\ UNCHANGED << config_, latest_result_, worker_thread_, stop_requested_, running_,
                  tracks_, next_track_id_, mutexVars, workerVars, ctlVars,
                  vtask, vclock, out, updates,
                  cycles, consumed, cycleStartCfg, used, stopClean, firstId, begun >>
  /\ UNCHANGED unitVars

\* line 153
SubmitNotify ==
  /\ vpc = "submit_notify"
  /\ NotifyOne(wpc')
  /\ vpc' = "idle"
  /\ vtask' = NoTask
  /\ UNCHANGED << programVars, mutexVars, task, config, detections, ctlVars,
                  vclock, out, updates, historyVars >>
  /\ UNCHANGED unitVars

\* --------------------------------------------------------- TryConsumeLatest
\* variant: the packet is returned but not marked read
MarkReadForgotten(packet) == packet

\* latest_result_ after a successful TryConsumeLatest
MarkRead(packet) == [packet EXCEPT !.valid = FALSE]

TryConsumeLatest ==
  /\ vpc = "idle"
  /\ result_mutex = Free
  /\ IF ~latest_result_.valid
     THEN UNCHANGED << latest_result_, out, consumed >>
     ELSE /\ out' = [faces |-> latest_result_.faces,
                     timestamp_ns |-> latest_result_.timestamp_ns,
                     cycle |-> latest_result_.cycle]
          /\ latest_result_' = MarkRead(latest_result_)
          /\ consumed' = Logged(consumed, [cycle |-> latest_result_.cycle,
                                           timestamp_ns |-> latest_result_.timestamp_ns])
  /\ UNCHANGED << config_, queue_, worker_thread_, stop_requested_, running_,
                  tracks_, next_track_id_, mutexVars, workerVars, ctlVars,
                  vpc, vtask, vclock, updates,
                  dropped, cycles, cycleStartCfg, used, stopClean, firstId, begun >>
  /\ UNCHANGED unitVars

\* the value QueueSize() returns
QueueSize == Len(queue_)

\* the value IsRunning() returns
IsRunning == running_

\* ------------------------------------------------------------- UpdateConfig
UpdateConfig(cfg) ==
  /\ updates < MaxUpdates
  /\ config_mutex = Free
  /\ config_' = cfg
  /\ updates' = updates + 1
  /\ UNCHANGED << queue_, latest_result_, worker_thread_, stop_requested_, running_,
                  tracks_, next_track_id_, mutexVars, workerVars, ctlVars, videoVars,
                  historyVars >>
  /\ UNCHANGED unitVars

\* ------------------------------------------------------------ Stop and Start
\* a caller enters Stop(); Start() enters it too, at its first line
CallStop ==
  /\ cpc = "idle"
  /\ cop' = "Stop"
  /\ cpc' = "stop_flag"
  /\ stopClean' = (vpc = "idle")
  /\ UNCHANGED << programVars, mutexVars, workerVars, carg, starts, videoVars, updates,
                  dropped, cycles, consumed, cycleStartCfg, used, firstId, begun >>
  /\ UNCHANGED unitVars

CallStart(cfg, models_ok) ==
  /\ cpc = "idle"
  /\ starts < MaxStarts
  /\ cop' = "Start"
  /\ carg' = [config |-> cfg, models_ok |-> models_ok]
  /\ starts' = starts + 1
  /\ cpc' = "stop_flag"
  /\ stopClean' = (vpc = "idle")
  /\ UNCHANGED << programVars, mutexVars, workerVars, videoVars, updates,
                  dropped, cycles, consumed, cycleStartCfg, used, firstId, begun >>
  /\ UNCHANGED unitVars

\* lines 104-107
StopFlag ==
  /\ cpc = "stop_flag"
  /\ queue_mutex = Free
  /\ stop_requested_' = TRUE
  /\ cpc' = "stop_notify"
  /\ UNCHANGED << config_, queue_, latest_result_, worker_thread_, running_,
                  tracks_, next_track_id_, mutexVars, workerVars, cop, carg, starts,
                  videoVars, updates, historyVars >>
  /\ UNCHANGED unitVars

\* line 108
StopNotify ==
  /\ cpc = "stop_notify"
  /\ wpc' = NotifyAll
  /\ cpc' = "stop_join"
  /\ UNCHANGED << programVars, mutexVars, task, config, detections, cop, carg, starts,
                  videoVars, updates, historyVars >>
  /\ UNCHANGED unitVars

\* variant: the thread is detached instead of joined
JoinReturnsAtOnce(t) == TRUE

\* may worker_thread_.join() return?  t is the thread the handle names
JoinReturns(t) == wpc[t] = "exited"

\* lines 110-112
StopJoin ==
  /\ cpc = "stop_join"
  /\ IF worker_thread_ = 0
     THEN UNCHANGED worker_thread_
     ELSE /\ JoinReturns(worker_thread_)
          /\ worker_thread_' = 0
  /\ cpc' = "stop_clearq"
  /\ UNCHANGED << config_, queue_, latest_result_, stop_requested_, running_,
                  tracks_, next_track_id_, mutexVars, workerVars, cop, carg, starts,
                  videoVars, updates, historyVars >>
  /\ UNCHANGED unitVars

\* lines 114-118
StopClearQueue ==
  /\ cpc = "stop_clearq"
  /\ queue_mutex = Free
  /\ queue_' = << >>
  /\ stop_requested_' = FALSE
  /\ cpc' = "stop_clearr"
  /\ UNCHANGED << config_, latest_result_, worker_thread_, running_,
                  tracks_, next_track_id_, mutexVars, workerVars, cop, carg, starts,
                  videoVars, updates, historyVars >>
  /\ UNCHANGED unitVars

\* variant: Stop leaves the mailbox as it is
StopResultKept(packet) == packet

\* latest_result_ after lines 119-122 of Stop
StopResult(packet) == EmptyResult

StopClearResult ==
  /\ cpc = "stop_clearr"
  /\ result_mutex = Free
  /\ latest_result_' = StopResult(latest_result_)
  /\ cpc' = "stop_finish"
  /\ UNCHANGED << config_, queue_, worker_thread_, stop_requested_, running_,
                  tracks_, next_track_id_, mutexVars, workerVars, cop, carg, starts,
                  videoVars, updates, historyVars >>
  /\ UNCHANGED unitVars

\* lines 123-124, and the return of Stop (into Start when Start called it).
\* No worker thread exists here, so the tracker reset is seen by nobody else.
StopFinish ==
  /\ cpc = "stop_finish"
  /\ running_' = FALSE
  /\ tracks_' = FaceTrackerReset(tracks_, next_track_id_).tracks
  /\ next_track_id_' = FaceTrackerReset(tracks_, next_track_id_).next_track_id
  /\ IF cop = "Stop"
     THEN cpc' = "idle" /\ cop' = "none" /\ carg' = NoArg
     ELSE cpc' = "start_load" /\ UNCHANGED << cop, carg >>
  /\ UNCHANGED << config_, queue_, latest_result_, worker_thread_, stop_requested_,
                  mutexVars, workerVars, starts, videoVars, updates, historyVars >>
  /\ UNCHANGED unitVars

\* variant: a model that failed to initialize is not noticed
ModelsLoadedUnchecked(arg) == TRUE

\* lines 61-80: did both models initialize (no exception, neither empty)?
ModelsLoaded(arg) == arg.models_ok

\* lines 60-80: the two models are created; a failure returns false
StartLoad ==
  /\ cpc = "start_load"
  /\ IF ModelsLoaded(carg)
     THEN cpc' = "start_cfg" /\ UNCHANGED << cop, carg >>
     ELSE cpc' = "idle" /\ cop' = "none" /\ carg' = NoArg
  /\ UNCHANGED << programVars, mutexVars, workerVars, starts, videoVars, updates,
                  dropped, cycles, consumed, cycleStartCfg, used, stopClean, firstId, begun >>
  /\ UNCHANGED unitVars

\* lines 82-85
StartConfig ==
  /\ cpc = "start_cfg"
  /\ config_mutex = Free
  /\ config_' = carg.config
  /\ cpc' = "start_clearq"
  /\ UNCHANGED << queue_, latest_result_, worker_thread_, stop_requested_, running_,
                  tracks_, next_track_id_, mutexVars, workerVars, cop, carg, starts,
                  videoVars, updates, historyVars >>
  /\ UNCHANGED unitVars

\* lines 86-90
StartClearQueue ==
  /\ cpc = "start_clearq"
  /\ queue_mutex = Free
  /\ queue_' = << >>
  /\ stop_requested_' = FALSE
  /\ cpc' = "start_clearr"
  /\ UNCHANGED << config_, latest_result_, worker_thread_, running_,
                  tracks_, next_track_id_, mutexVars, workerVars, cop, carg, starts,
                  videoVars, updates, historyVars >>
  /\ UNCHANGED unitVars

\* lines 91-94
StartClearResult ==
  /\ cpc = "start_clearr"
  /\ result_mutex = Free
  /\ latest_result_' = EmptyResult
  /\ cpc' = "start_spawn"
  /\ UNCHANGED << config_, queue_, worker_thread_, stop_requested_, running_,
                  tracks_, next_track_id_, mutexVars, workerVars, cop, carg, starts,
                  videoVars, updates, historyVars >>
  /\ UNCHANGED unitVars

\* lines 95-97: the tracker is reset and the thread of the starts-th Start
\* call begins WorkerLoop
StartSpawn ==
  /\ cpc = "start_spawn"
  /\ tracks_' = FaceTrackerReset(tracks_, next_track_id_).tracks
  /\ next_track_id_' = FaceTrackerReset(tracks_, next_track_id_).next_track_id
  /\ worker_thread_' = starts
  /\ wpc' = [wpc EXCEPT ![starts] = "lock"]
  /\ firstId' = 0
  /\ cpc' = "start_running"
  /\ UNCHANGED << config_, queue_, latest_result_, stop_requested_, running_,
                  mutexVars, task, config, detections,
                  cop, carg, starts, videoVars, updates,
                  dropped, cycles, consumed, cycleStartCfg, used, stopClean, begun >>
  /\ UNCHANGED unitVars

\* lines 98-99
StartRunning ==
  /\ cpc = "start_running"
  /\ running_' = TRUE
  /\ cpc' = "idle" /\ cop' = "none" /\ carg' = NoArg
  /\ UNCHANGED << config_, queue_, latest_result_, worker_thread_, stop_requested_,
                  tracks_, next_track_id_, mutexVars, workerVars, starts,
                  videoVars, updates,
                  dropped, cycles, consumed, cycleStartCfg, used, stopClean, firstId, begun >>
  /\ UNCHANGED unitVars

\* --------------------------------------------------------------- WorkerLoop
Unused == [max_faces |-> -1, inference_width |-> -1, confidence_threshold |-> -1,
           smoothing_seconds |-> -1]

\* line 193: the unique_lock is acquired (also after a wakeup from the wait)
WorkerLock(w) ==
  /\ wpc[w] = "lock"
  /\ queue_mutex = Free
  /\ queue_mutex' = w
  /\ wpc' = [wpc EXCEPT ![w] = "check"]
  /\ UNCHANGED << programVars, config_mutex, result_mutex, task, config, detections,
                  ctlVars, videoVars, updates, historyVars >>
  /\ UNCHANGED unitVars

\* variant: the lock's scope extends over the rest of the loop body
QueueMutexHeldOverCycle(w) == w

\* owner of queue_mutex_ once the block of lines 192-202 is left with a task
QueueMutexAfterDequeue(w) == Free

\* variant: the front task is copied but not popped
DequeueRestNoPop(queue) == queue

\* the queue after lines 200-201
DequeueRest(queue) == Tail(queue)

\* lines 194-202, holding queue_mutex_: wait (releasing the mutex) while there
\* is neither work nor a stop request; leave the loop when stopping with an
\* empty queue; otherwise take the front task
WorkerCheck(w) ==
  /\ wpc[w] = "check"
  /\ queue_mutex = w
  /\ IF ~(stop_requested_ \/ queue_ # << >>)
     THEN /\ wpc' = [wpc EXCEPT ![w] = "waiting"]
          /\ queue_mutex' = Free
          /\ UNCHANGED << queue_, task, begun >>
     ELSE IF stop_requested_ /\ queue_ = << >>
     THEN /\ wpc' = [wpc EXCEPT ![w] = "exited"]
          /\ queue_mutex' = Free
          /\ UNCHANGED << queue_, task, begun >>
     ELSE /\ task' = [task EXCEPT ![w] = Head(queue_)]
          /\ queue_' = DequeueRest(queue_)
          /\ wpc' = [wpc EXCEPT ![w] = "snapshot"]
          /\ queue_mutex' = QueueMutexAfterDequeue(w)
          /\ begun' = Tally(begun)
  /\ UNCHANGED << config_, latest_result_, worker_thread_, stop_requested_, running_,
                  tracks_, next_track_id_, config_mutex, result_mutex,
                  config, detections, ctlVars, videoVars, updates,
                  dropped, cycles, consumed, cycleStartCfg, used, stopClean, firstId >>
  /\ UNCHANGED unitVars

\* a condition-variable wait may end without a notification
SpuriousWake(w) ==
  /\ wpc[w] = "waiting"
  /\ wpc' = [wpc EXCEPT ![w] = "lock"]
  /\ UNCHANGED << programVars, mutexVars, task, config, detections,
                  ctlVars, videoVars, updates, historyVars >>
  /\ UNCHANGED unitVars

\* the local `config` of RunInference after lines 225-229
Snapshot(w) == config_

\* lines 225-229
WorkerSnapshot(w) ==
  /\ wpc[w] = "snapshot"
  /\ config_mutex = Free
  /\ config' = [config EXCEPT ![w] = Snapshot(w)]
  /\ cycleStartCfg' = [cycleStartCfg EXCEPT ![w] = config_]
  /\ used' = [used EXCEPT ![w] = Unused]
  /\ wpc' = [wpc EXCEPT ![w] = "infer"]
  /\ UNCHANGED << programVars, mutexVars, task, detections,
                  ctlVars, videoVars, updates,
                  dropped, cycles, consumed, stopClean, firstId, begun >>
  /\ UNCHANGED unitVars

\* variant: the cycle reads the shared config_ instead of its copy
CycleConfigLive(w) == config_

\* the configuration the rest of the cycle reads (the local copy)
CycleConfig(w) == config[w]

\* variant: a stop request seen after RunInference ends the loop at once
AfterInferenceStopAware(w) == IF stop_requested_ THEN "exited" ELSE "publish"

\* where the worker goes once RunInference has returned: on to lines 210-219
AfterInference(w) == "publish"

\* variant: the catch (...) returns the empty list without tracker_.Reset()
RunInferenceOnNoReset(tracks, next_track_id, frame, cfg, d) ==
  IF FrameEmpty(frame) \/ d.caught
  THEN [tracks |-> tracks, next_track_id |-> next_track_id, faces |-> << >>]
  ELSE FaceTrackerUpdate(tracks, next_track_id, d.detections, frame.timestamp_ns,
                         cfg.max_faces, cfg.smoothing_seconds, cfg.confidence_threshold)

\* InferenceWorker::RunInference after the snapshot (lines 231-290) on the
\* tracker state: empty-frame test, downscale, detection, classification and
\* tracker_.Update.  scene is what the detector and the classifier do on this
\* frame; cfg is the configuration the cycle reads.
RunInferenceOn(tracks, next_track_id, frame, cfg, d) ==
  IF FrameEmpty(frame) \/ d.caught
  THEN [tracks |-> FaceTrackerReset(tracks, next_track_id).tracks,
        next_track_id |-> FaceTrackerReset(tracks, next_track_id).next_track_id,
        faces |-> << >>]
  ELSE FaceTrackerUpdate(tracks, next_track_id, d.detections, frame.timestamp_ns,
                         cfg.max_faces, cfg.smoothing_seconds, cfg.confidence_threshold)

RunInference(tracks, next_track_id, frame, cfg, scene) ==
  RunInferenceOn(tracks, next_track_id, frame, cfg, DetectFaces(frame, cfg, scene))

\* the configuration values a cycle reads: inference_width unless the frame
\* is empty, the other three when tracker_.Update is reached
UsedBy(frame, cfg, scene) ==
  IF FrameEmpty(frame) THEN Unused
  ELSE IF DetectFaces(frame, cfg, scene).caught
  THEN [Unused EXCEPT !.inference_width = cfg.inference_width]
  ELSE cfg

\* line 205: std::vector<DetectedFace> detections = RunInference(task)
WorkerInfer(w, scene) ==
  /\ wpc[w] = "infer"
  /\ \E r \in {RunInference(tracks_, next_track_id_, task[w], CycleConfig(w), scene)} :
         /\ tracks_' = r.tracks
         /\ next_track_id_' = r.next_track_id
         /\ detections' = [detections EXCEPT ![w] = r.faces]
         /\ firstId' = IF firstId = 0 /\ r.next_track_id > next_track_id_
                       THEN next_track_id_ ELSE firstId
  /\ used' = [used EXCEPT ![w] = UsedBy(task[w], CycleConfig(w), scene)]
  /\ wpc' = [wpc EXCEPT ![w] = AfterInference(w)]
  /\ UNCHANGED << config_, queue_, latest_result_, worker_thread_, stop_requested_, running_,
                  mutexVars, task, config, ctlVars, videoVars, updates,
                  dropped, cycles, consumed, cycleStartCfg, stopClean, begun >>
  /\ UNCHANGED unitVars

\* variant: an unread packet is kept and the new one discarded
PublishKeepUnread(old, packet) == IF old.valid THEN old ELSE packet

\* latest_result_ after lines 216-219, given the packet built in lines 210-214
Publish(old, packet) == packet

\* lines 210-219, and the end of the loop body (the locals are destroyed)
WorkerPublish(w) ==
  /\ wpc[w] = "publish"
  /\ result_mutex = Free
  /\ latest_result_' = Publish(latest_result_,
                               [faces |-> detections[w],
                                timestamp_ns |-> task[w].timestamp_ns,
                                valid |-> TRUE, cycle |-> Tally(cycles)])
  /\ cycles' = Tally(cycles)
  /\ task' = [task EXCEPT ![w] = NoTask]
  /\ config' = [config EXCEPT ![w] = NoConfig]
  /\ detections' = [detections EXCEPT ![w] = << >>]
  /\ cycleStartCfg' = [cycleStartCfg EXCEPT ![w] = NoConfig]
  /\ used' = [used EXCEPT ![w] = NoConfig]
  /\ wpc' = [wpc EXCEPT ![w] = "lock"]
  /\ UNCHANGED << config_, queue_, worker_thread_, stop_requested_, running_,
                  tracks_, next_track_id_, mutexVars, ctlVars, videoVars, updates,
                  dropped, consumed, stopClean, firstId, begun >>
  /\ UNCHANGED unitVars

\* ------------------------------------------------------------ specification
Next ==
  \/ \E ts \in (vclock + 1)..Min(vclock + 1, MaxTs) : \E shape \in FrameShapes :
       SubmitFrame(ts, shape)
  \/ SubmitPush
  \/ SubmitNotify
  \/ TryConsumeLatest
  \/ \E cfg \in Configs : UpdateConfig(cfg)
  \/ CallStop
  \/ \E cfg \in Configs : \E models_ok \in BOOLEAN : CallStart(cfg, models_ok)
  \/ StopFlag
  \/ StopNotify
  \/ StopJoin
  \/ StopClearQueue
  \/ StopClearResult
  \/ StopFinish
  \/ StartLoad
  \/ StartConfig
  \/ StartClearQueue
  \/ StartClearResult
  \/ StartSpawn
  \/ StartRunning
  \/ \E w \in Workers : WorkerLock(w)
  \/ \E w \in Workers : WorkerCheck(w)
  \/ \E w \in Workers : SpuriousWake(w)
  \/ \E w \in Workers : WorkerSnapshot(w)
  \/ \E w \in Workers : \E scene \in Scenes : WorkerInfer(w, scene)
  \/ \E w \in Workers : WorkerPublish(w)

Spec == Init /\ [][Next]_vars

\* ---------------------------------------------------- fair scheduling
\* The pipeline with frames that keep arriving: after the timestamp MaxTs
\* the caller goes on submitting frames, which carry that timestamp again.
\* Every frame is a non-empty 16x16 one in which the detector finds no face.
LiveShape == [cols |-> 16, rows |-> 16, source_width |-> 16, source_height |-> 16]
LiveScene == [detect_throws |-> FALSE, cols |-> 15, rows |-> << >>]

\* a step of worker thread w: the cycle terminates
LiveWorkerStep(w) ==
  \/ WorkerLock(w)
  \/ WorkerCheck(w)
  \/ WorkerSnapshot(w)
  \/ WorkerInfer(w, LiveScene)
  \/ WorkerPublish(w)

\* the steps of the control thread inside Stop() and Start()
StopStartStep ==
  \/ StopFlag
  \/ StopNotify
  \/ StopJoin
  \/ StopClearQueue
  \/ StopClearResult
  \/ StopFinish
  \/ StartLoad
  \/ StartConfig
  \/ StartClearQueue
  \/ StartClearResult
  \/ StartSpawn
  \/ StartRunning

\* the steps of the video thread inside SubmitFrame
SubmitStep == SubmitPush \/ SubmitNotify

LiveNext ==
  \/ SubmitFrame(Min(vclock + 1, MaxTs), LiveShape)
  \/ SubmitStep
  \/ TryConsumeLatest
  \/ CallStop
  \/ \E models_ok \in BOOLEAN : CallStart(CfgA, models_ok)
  \/ StopStartStep
  \/ \E w \in Workers : LiveWorkerStep(w)
  \/ \E w \in Workers : SpuriousWake(w)

\* every thread that can run does run: a worker thread takes its next step
\* (weak fairness: nothing disables a worker's step but the worker itself or
\* a mutex block of another thread, which is one step), and a thread inside
\* Stop, Start or SubmitFrame gets the mutex it asks for (strong fairness).
\* Nothing obliges the callers to call, nor a wait to end spuriously.
Fairness ==
  /\ \A w \in Workers : WF_vars(LiveWorkerStep(w))
  /\ SF_vars(StopStartStep)
  /\ SF_vars(SubmitStep)

LiveSpec == Init /\ [][LiveNext]_vars /\ Fairness

\* ------------------------------------------------- failures outside the try
\* the steps of RunInference that can throw and lie outside its try block:
\* cv::resize (line 241) and tracker_.Update (lines 285-290)
UnguardedSteps == {"resize", "update"}

\* does the cycle of worker w reach the step, the models behaving as in scene?
StepReached(w, step, scene) ==
  /\ ~FrameEmpty(task[w])
  /\ step = "resize" => Downscaled(task[w], CycleConfig(w))
  /\ step = "update" => ~DetectFaces(task[w], CycleConfig(w), scene).caught

\* worker threads whose thread function was left by an exception
\* (std::terminate ends the process)
Terminated == {w \in Workers : wpc[w] = "terminated"}

\* the step throws: the exception leaves RunInference (line 205), and
\* WorkerLoop has no handler
WorkerFault(w, step, scene) ==
  /\ wpc[w] = "infer"
  /\ StepReached(w, step, scene)
  /\ wpc' = [wpc EXCEPT ![w] = "terminated"]
  /\ UNCHANGED << programVars, mutexVars, task, config, detections,
                  ctlVars, videoVars, updates, historyVars >>
  /\ UNCHANGED unitVars

FaultNext ==
  \/ (Terminated = {} /\ Next)
  \/ \E w \in Workers : \E step \in UnguardedSteps : \E scene \in Scenes :
       WorkerFault(w, step, scene)

\* the program when the steps outside the try block may throw
FaultSpec == Init /\ [][FaultNext]_vars

\* ------------------------------------------------- the FaceTracker by itself
\* probability vectors as the normalizer returns them: all on Joie, and
\* 0.6 Neutre with 0.4 Joie
ProbsJoie == << 0, Q, 0, 0, 0, 0, 0, 0 >>
ProbsMixed == << 600, 400, 0, 0, 0, 0, 0, 0 >>

\* boxes of four different areas: IoU(A, B) = 1/5 exactly, IoU(A, C) = 3/4,
\* IoU(B, C) = 1/4, and D meets none of them
BoxA == Rect(0, 0, 4, 1)
BoxB == Rect(3, 0, 2, 1)
BoxC == Rect(1, 0, 3, 1)
BoxD == Rect(10, 10, 3, 2)
\* two boxes of different areas that both have IoU 1/2 with C
BoxP == Rect(1, 0, 3, 2)
BoxB2 == Rect(2, 0, 3, 1)

DetA == [bbox |-> BoxA, probs_raw |-> ProbsJoie]
DetB == [bbox |-> BoxB, probs_raw |-> ProbsMixed]
DetC == [bbox |-> BoxC, probs_raw |-> ProbsMixed]
DetD == [bbox |-> BoxD, probs_raw |-> ProbsJoie]
DetP == [bbox |-> BoxP, probs_raw |-> ProbsJoie]
DetB2 == [bbox |-> BoxB2, probs_raw |-> ProbsMixed]

\* the detections of one cycle, in the detector's row order
DetectionLists ==
  { << >>, << DetA >>, << DetB >>, << DetC >>, << DetA, DetD >>,
    << DetA, DetB, DetC, DetD >>, << DetB2, DetP >> }

\* a configuration with max_faces = 2, between the two of Configs
CfgC == [max_faces |-> 2, inference_width |-> 16, confidence_threshold |-> 300,
         smoothing_seconds |-> 0]

\* a configuration whose smoothing time (0.2 s) tells an elapsed time of
\* 0, 1/15 s and 0.1 s apart
CfgD == [max_faces |-> 3, inference_width |-> 16, confidence_threshold |-> 300,
         smoothing_seconds |-> 200]

TrackerConfigs == Configs \cup {CfgC, CfgD}

Ticks == 0..MaxTick

\* ids of the tracks of `after` that no track of `before` carries, in track order
SpawnedIds(before, after) ==
  SelectSeq([i \in 1..Len(after) |-> after[i].track_id],
            LAMBDA id : \A k \in 1..Len(before) : before[k].track_id # id)

\* tracker_.Update(detections, timestamp_ns, max_faces, smoothing_seconds,
\* confidence_threshold), lines 285-290 of inference_worker.cpp
TrackerUpdate(dets, timestamp_ns, cfg) ==
  /\ calls < MaxCalls
  /\ \E r \in {FaceTrackerUpdate(tracks_, next_track_id_, dets, timestamp_ns, cfg.max_faces,
                                  cfg.smoothing_seconds, cfg.confidence_threshold)} :
       /\ tracks_' = r.tracks
       /\ next_track_id_' = r.next_track_id
       /\ lastCall' = [kind |-> "Update", detections |-> dets, timestamp_ns |-> timestamp_ns,
                       max_faces |-> cfg.max_faces,
                       smoothing_seconds |-> cfg.smoothing_seconds,
                       confidence_threshold |-> cfg.confidence_threshold,
                       tracks_before |-> tracks_, next_id_before |-> next_track_id_,
                       faces |-> r.faces]
       /\ issued' = issued \o SpawnedIds(tracks_, r.tracks)
  /\ calls' = calls + 1
  /\ UNCHANGED besideTracker

\* tracker_.Reset(), as a failed cycle, Start and Stop call it
TrackerReset ==
  /\ calls < MaxCalls
  /\ tracks_' = FaceTrackerReset(tracks_, next_track_id_).tracks
  /\ next_track_id_' = FaceTrackerReset(tracks_, next_track_id_).next_track_id
  /\ lastCall' = [NoCall EXCEPT !.kind = "Reset", !.tracks_before = tracks_,
                                !.next_id_before = next_track_id_]
  /\ calls' = calls + 1
  /\ UNCHANGED << besideTracker, issued >>

TrackerNext ==
  \/ \E dets \in DetectionLists : \E timestamp_ns \in Ticks : \E cfg \in TrackerConfigs :
       TrackerUpdate(dets, timestamp_ns, cfg)
  \/ TrackerReset

\* a FaceTracker driven by an arbitrary sequence of Update and Reset calls
TrackerSpec == Init /\ [][TrackerNext]_vars

\* -------------------------------------------- the normalizer by itself
\* values a classifier may put in a slot: the ends of the range the
\* probability test accepts (-0.001 and 1.001), values whose sums fall on,
\* inside and outside the limits 0.85 and 1.15, and a logit
OutputValues == { -1, 0, 150, 425, 575, 850, Q + 1, 2 * Q }

\* a small value in a third slot, or none
ThirdValues == { 0, 50 }

\* the classifier outputs: two slots from OutputValues, one from ThirdValues
ModelOutputs ==
  { << a, b, c, 0, 0, 0, 0, 0 >> : a \in OutputValues, b \in OutputValues, c \in ThirdValues }

\* the state before NormalizeEmotionOutput is called on any of the outputs
NormInit ==
  /\ ProgramInit
  /\ model_output \in ModelOutputs
  /\ normalized = << >>
  /\ FilterIdle
  /\ CycleIdle

\* NormalizeEmotionOutput(model_output), line 328 of inference_worker.cpp
Normalize ==
  /\ normalized = << >>
  /\ normalized' = NormalizeEmotionOutput(model_output)
  /\ UNCHANGED << programVars, mutexVars, workerVars, ctlVars, videoVars, updates,
                  historyVars, callVars, model_output, filterVars, cycleVars >>

NormNext == Normalize

\* NormalizeEmotionOutput applied to each of the classifier outputs
NormSpec == NormInit /\ [][NormNext]_vars

\* ------------------------------------------------------ FaceEmotionFilter
\* Frame timestamps are counted in ticks of 1/FrameHz second, the period of
\* a 60 fps source; kOneSecondNs is FrameHz ticks.
FrameHz == 60

\* the settings object OBS hands to Update: the values GetDefaults registers
\* (inference_fps 0), and settings a user saved
DefaultSettings == [enabled |-> TRUE, inference_fps |-> 0, show_box |-> TRUE, show_label |-> TRUE]
Fps15Settings == [DefaultSettings EXCEPT !.inference_fps = 15]
Fps300Settings == [DefaultSettings EXCEPT !.inference_fps = 300]
HiddenSettings == [Fps15Settings EXCEPT !.show_box = FALSE, !.show_label = FALSE]
DisabledSettings == [DefaultSettings EXCEPT !.enabled = FALSE]

FilterSettings ==
  {DefaultSettings, Fps15Settings, Fps300Settings, HiddenSettings, DisabledSettings}

\* updated_config as Update builds it from the settings: inference_fps is
\* clamped to 0..240
UpdatedConfig(settings) ==
  [enabled |-> settings.enabled,
   inference_fps |-> Max(0, Min(240, settings.inference_fps)),
   show_box |-> settings.show_box,
   show_label |-> settings.show_label]

\* the frames OBS delivers: a format drawn in place, a format converted to
\* BGR and written back, a format the filter does not support, and a frame
\* without pixel data
FrameKinds ==
  { [format |-> "BGRA", has_data |-> TRUE],
    [format |-> "NV12", has_data |-> TRUE],
    [format |-> "I444", has_data |-> TRUE],
    [format |-> "BGRA", has_data |-> FALSE] }

SupportsFrameFormat(format) == format \in {"BGRA", "NV12"}

SupportsInPlaceOverlay(format) == format = "BGRA"

\* does ExtractBgrFrame return true?
ExtractBgrFrame(frame) == frame.has_data

\* lines 367-369
ConfiguredFps(local_config) == Max(0, local_config.inference_fps)

Unthrottled(local_config) == ConfiguredFps(local_config) = 0

IntervalNs(local_config) ==
  IF Unthrottled(local_config) THEN 0 ELSE FrameHz \div ConfiguredFps(local_config)

\* the condition of line 374
ThrottleOpen(local_config, last_submitted, timestamp_ns) ==
  \/ Unthrottled(local_config)
  \/ last_submitted = 0
  \/ timestamp_ns >= last_submitted + IntervalNs(local_config)

\* lines 374-375: is the frame handed to SubmitFrame?
Submits(local_config, last_submitted, timestamp_ns, frame) ==
  ThrottleOpen(local_config, last_submitted, timestamp_ns) /\ ExtractBgrFrame(frame)

\* the timestamp as the worker's tracker reads it, in ticks of TickMs
WorkerTick(timestamp_ns) == (timestamp_ns * 1000) \div (FrameHz * TickMs)

\* the FrameTask SubmitFrame builds from the 16x16 frame
FilterTask(timestamp_ns) ==
  [timestamp_ns |-> WorkerTick(timestamp_ns), cols |-> 16, rows |-> 16,
   source_width |-> 16, source_height |-> 16]

\* variant: an empty result leaves the faces of the result before it
FacesAfterConsumeHoldLast(faces, packet) ==
  IF packet.valid /\ packet.faces # << >> THEN packet.faces ELSE faces

\* latest_faces_ after lines 388-394, given the mailbox
FacesAfterConsume(faces, packet) == IF packet.valid THEN packet.faces ELSE faces

\* the mailbox after TryConsumeLatest
MailboxAfterConsume(packet) == IF packet.valid THEN MarkRead(packet) ELSE packet

\* DrawOverlay / DrawOverlayOnBgr: the faces whose box meets the 16x16 frame
Visible(faces) ==
  SelectSeq(faces, LAMBDA face : ~RectEmpty(RectAnd(face.bbox, Rect(0, 0, 16, 16))))

\* lines 396-410: the faces drawn on the frame
Overlay(local_config, frame, faces) ==
  IF (local_config.show_box \/ local_config.show_label) /\ ExtractBgrFrame(frame)
  THEN Visible(faces)
  ELSE << >>

\* lines 338-355: FilterVideo returns the frame untouched
Bypassed(frame) ==
  \/ ~worker_ready_
  \/ ~filter_config_.enabled
  \/ ~SupportsFrameFormat(frame.format)

\* FilterVideo(frame) on the video thread
FilterVideo(timestamp_ns, frame) ==
  /\ timestamp_ns > fclock
  /\ fclock' = timestamp_ns
  /\ IF Bypassed(frame)
     THEN /\ drawn' = << >>
          /\ UNCHANGED << last_submitted_ts_ns_, latest_faces_, worker_, sent >>
     ELSE /\ \E submit \in {Submits(filter_config_, last_submitted_ts_ns_, timestamp_ns, frame)} :
               /\ worker_' =
                    [queue |-> IF submit
                               THEN PushLatest(worker_.queue, FilterTask(timestamp_ns))
                               ELSE worker_.queue,
                     latest_result |-> MailboxAfterConsume(worker_.latest_result)]
               /\ last_submitted_ts_ns_' =
                    IF submit /\ ~Unthrottled(filter_config_)
                    THEN timestamp_ns ELSE last_submitted_ts_ns_
               /\ sent' = IF submit THEN timestamp_ns ELSE sent
          /\ latest_faces_' = FacesAfterConsume(latest_faces_, worker_.latest_result)
          /\ drawn' = Overlay(filter_config_, frame, latest_faces_')
  /\ shown' = IF drawn' # << >> THEN drawn' ELSE shown
  /\ UNCHANGED << filter_config_, worker_ready_, found, tracks_, next_track_id_,
                  pipelineVars, callVars, normVars, cycleVars >>

\* Update(settings), lines 285-330
FilterUpdate(settings) ==
  /\ filter_config_ # UpdatedConfig(settings)
  /\ filter_config_' = UpdatedConfig(settings)
  /\ UNCHANGED << worker_ready_, last_submitted_ts_ns_, latest_faces_, worker_,
                  fclock, sent, drawn, shown, found, tracks_, next_track_id_,
                  pipelineVars, callVars, normVars, cycleVars >>

\* one cycle of the worker thread on the frame at the head of its queue:
\* RunInference and the publication of its result
WorkerCycle(scene) ==
  /\ worker_.queue # << >>
  /\ \E r \in {RunInference(tracks_, next_track_id_, Head(worker_.queue), CfgA, scene)} :
       /\ tracks_' = r.tracks
       /\ next_track_id_' = r.next_track_id
       /\ worker_' =
            [queue |-> Tail(worker_.queue),
             latest_result |-> Publish(worker_.latest_result,
                                       [faces |-> r.faces,
                                        timestamp_ns |-> Head(worker_.queue).timestamp_ns,
                                        valid |-> TRUE, cycle |-> 0])]
  /\ found' = Len(DetectFaces(Head(worker_.queue), CfgA, scene).detections)
  /\ UNCHANGED << filter_config_, worker_ready_, last_submitted_ts_ns_, latest_faces_,
                  fclock, sent, drawn, shown, pipelineVars, callVars, normVars, cycleVars >>

\* the filter after FilterCreate(settings, source): the constructor, which
\* starts the worker if the model files are there, and Update(settings)
FilterInit ==
  /\ ProgramInit
  /\ NormIdle
  /\ worker_ready_ \in BOOLEAN
  /\ \E settings \in FilterSettings : filter_config_ = UpdatedConfig(settings)
  /\ FilterMembers
  /\ CycleIdle

FilterNext ==
  \/ \E timestamp_ns \in 1..MaxFrame : \E frame \in FrameKinds :
       FilterVideo(timestamp_ns, frame)
  \/ \E settings \in FilterSettings : FilterUpdate(settings)
  \/ \E scene \in Scenes : WorkerCycle(scene)

\* the filter on the video thread, its settings, and the cycles of its worker
FilterSpec == FilterInit /\ [][FilterNext]_vars

\* ------------------------------------------------- RunInference by itself
\* detector rows beside RowA and RowB: a zero and a negative score, a box
\* outside the frame, a box across the frame's corner, a box across its left
\* edge, and classifiers that return three values or none
RowZero  == [x |-> 5, y |-> 5, width |-> 2, height |-> 2, score |-> 0, cls |-> ClsOneHot]
RowNeg   == [x |-> 8, y |-> 1, width |-> 3, height |-> 3, score |-> -100, cls |-> ClsLogits]
RowOut   == [x |-> 40, y |-> 40, width |-> 4, height |-> 4, score |-> 900, cls |-> ClsOneHot]
RowEdge  == [x |-> 14, y |-> 13, width |-> 4, height |-> 5, score |-> 900, cls |-> ClsLogits]
RowLeft  == [x |-> -2, y |-> 8, width |-> 5, height |-> 3, score |-> 700, cls |-> ClsOneHot]
ClsShort == [throws |-> FALSE, output |-> << 0, 0, Q >>]
ClsEmpty == [throws |-> FALSE, output |-> << >>]
RowShort == [x |-> 9, y |-> 9, width |-> 3, height |-> 3, score |-> 900, cls |-> ClsShort]
RowNone  == [x |-> 9, y |-> 1, width |-> 2, height |-> 2, score |-> 900, cls |-> ClsEmpty]

\* the scenes RunInference is called on by itself
CycleScenes ==
  Scenes \cup
  { [detect_throws |-> FALSE, cols |-> 14, rows |-> << RowA, RowB >>],
    [detect_throws |-> FALSE, cols |-> 15, rows |-> << RowZero, RowA >>],
    [detect_throws |-> FALSE, cols |-> 15, rows |-> << RowA, RowNeg, RowB >>],
    [detect_throws |-> FALSE, cols |-> 15, rows |-> << RowOut, RowB >>],
    [detect_throws |-> FALSE, cols |-> 15, rows |-> << RowEdge, RowLeft >>],
    [detect_throws |-> FALSE, cols |-> 15, rows |-> << RowShort, RowB >>],
    [detect_throws |-> FALSE, cols |-> 15, rows |-> << RowA, RowNone >>],
    [detect_throws |-> FALSE, cols |-> 15, rows |-> << RowZero, RowT >>] }

\* the frames: those of FrameShapes and a 32x32 one
CycleFrames ==
  FrameShapes \cup {[cols |-> 32, rows |-> 32, source_width |-> 32, source_height |-> 32]}

\* the FrameTask of the n-th call
TaskOf(shape, n) ==
  [timestamp_ns |-> n, cols |-> shape.cols, rows |-> shape.rows,
   source_width |-> shape.source_width, source_height |-> shape.source_height]

\* what the call did on the tracker: Reset (lines 231-234 and 280-283) or
\* Update with the collected detections (lines 285-290)
TrackerCallOf(frame, cfg, d, faces) ==
  IF FrameEmpty(frame) \/ d.caught
  THEN [NoCall EXCEPT !.kind = "Reset", !.tracks_before = tracks_,
                      !.next_id_before = next_track_id_]
  ELSE [kind |-> "Update", detections |-> d.detections, timestamp_ns |-> frame.timestamp_ns,
        max_faces |-> cfg.max_faces,
        smoothing_seconds |-> cfg.smoothing_seconds,
        confidence_threshold |-> cfg.confidence_threshold,
        tracks_before |-> tracks_, next_id_before |-> next_track_id_,
        faces |-> faces]

\* InferenceWorker::RunInference(task) with config_ = cfg
RunCycle(frame, cfg, scene) ==
  /\ calls < MaxCycles
  /\ \E d \in {DetectFaces(frame, cfg, scene)} :
       \E r \in {RunInferenceOn(tracks_, next_track_id_, frame, cfg, d)} :
         /\ tracks_' = r.tracks
         /\ next_track_id_' = r.next_track_id
         /\ lastCall' = TrackerCallOf(frame, cfg, d, r.faces)
         /\ issued' = issued \o SpawnedIds(tracks_, r.tracks)
         /\ ran' = [frame |-> frame, config |-> cfg, scene |-> scene, faces |-> r.faces]
  /\ calls' = calls + 1
  /\ UNCHANGED << pipelineVars, normVars, filterVars >>

CycleNext ==
  \E shape \in CycleFrames : \E cfg \in Configs : \E scene \in CycleScenes :
    RunCycle(TaskOf(shape, calls + 1), cfg, scene)

\* RunInference called MaxCycles times on one tracker
CycleSpec == Init /\ [][CycleNext]_vars

\* =================================================================== claims
\* worker threads that exist and have not left WorkerLoop
Live == {w \in Workers : wpc[w] \notin {"none", "exited"}}

\* workers with a cycle in flight: a frame dequeued, its result not yet written
InFlight == {w \in Workers : wpc[w] \in {"snapshot", "infer", "publish"}}

\* C1: in every reachable state the submission queue holds at most one
\* pending frame (QueueSize() <= 1).
C1_QueueAtMostOne == QueueSize <= 1

\* a frame was submitted while another was pending, and is now the pending one
C1_Witness == dropped # {} /\ Len(queue_) = 1

\* timestamps of frames that can still reach, or have reached, a result
DeliveredOrUnderway ==
  {task[w].timestamp_ns : w \in InFlight}
    \cup (IF latest_result_.valid THEN {latest_result_.timestamp_ns} ELSE {})
    \cup {consumed[i].timestamp_ns : i \in 1..Len(consumed)}

\* C2: a SubmitFrame that finds an earlier frame pending discards the earlier
\* frame and keeps the newer one, and the timestamp of a discarded frame is
\* never in a cycle, in the mailbox or in a result TryConsumeLatest returned.
C2_DroppedNeverDelivered ==
  /\ [](dropped \cap DeliveredOrUnderway = {})
  /\ [][(vpc = "submit_push" /\ vpc' = "submit_notify")
          => /\ queue_' = << vtask >>
             /\ queue_ # << >> => Head(queue_).timestamp_ns \in dropped']_vars

\* a frame was discarded by a later SubmitFrame and the later frame's result
\* was returned by TryConsumeLatest
C2_Witness ==
  /\ dropped # {}
  /\ \E i \in 1..Len(consumed) : \A d \in dropped : consumed[i].timestamp_ns > d

\* C3: the worker holds queue_mutex_ only while dequeuing, never during a
\* cycle, so a SubmitFrame that has reached its push while a cycle is in
\* flight can take the mutex and complete.
C3_SubmitNeverWaitsForCycle ==
  /\ \A w \in InFlight : queue_mutex # w
  /\ (InFlight # {} /\ vpc = "submit_push") => ENABLED SubmitPush

\* a SubmitFrame has pushed its frame while the worker is inside RunInference
\* on an earlier frame
C3_Witness ==
  /\ vpc = "submit_notify"
  /\ queue_ # << >>
  /\ \E w \in Workers : wpc[w] = "infer" /\ task[w].timestamp_ns < Head(queue_).timestamp_ns

\* C4: there is never more than one live worker thread and never more than
\* one cycle in flight, and a frame is dequeued only when every cycle begun
\* before has written its result.
C4_OneCycleAtATime ==
  /\ [](Cardinality(Live) <= 1)
  /\ [](Cardinality(InFlight) <= 1)
  /\ [][begun' # begun => (begun = cycles /\ InFlight = {})]_vars

\* the thread of a second Start runs a cycle after the first thread has run one
C4_Witness ==
  /\ starts = 2
  /\ wpc[1] = "exited"
  /\ wpc[2] = "infer"
  /\ cycles >= 1

\* does the value v a cycle read agree with the value c of the snapshot?
AgreesWith(v, c) == v = -1 \/ v = c

\* C5: every configuration value a cycle reads is the value config_ had when
\* the cycle took its snapshot, whatever UpdateConfig does meanwhile; the
\* four values come from one Start or UpdateConfig call; and the snapshot of
\* a cycle is the configuration most recently written.
C5_CycleUsesItsSnapshot ==
  \A w \in Workers :
    /\ wpc[w] = "publish" =>
         /\ AgreesWith(used[w].max_faces, cycleStartCfg[w].max_faces)
         /\ AgreesWith(used[w].inference_width, cycleStartCfg[w].inference_width)
         /\ AgreesWith(used[w].confidence_threshold, cycleStartCfg[w].confidence_threshold)
         /\ AgreesWith(used[w].smoothing_seconds, cycleStartCfg[w].smoothing_seconds)
         /\ used[w].max_faces # -1 => used[w] \in Configs
    /\ wpc[w] \in {"infer", "publish"} => config[w] = cycleStartCfg[w]

\* a cycle has used all four values of its snapshot although UpdateConfig has
\* written another configuration since
C5_Witness ==
  \E w \in Workers :
    /\ wpc[w] = "publish"
    /\ used[w] = cycleStartCfg[w]
    /\ used[w] \in Configs
    /\ config_ # cycleStartCfg[w]
    /\ updates >= 1

\* C6: TryConsumeLatest returns the result of a completed cycle at most once,
\* and its output arguments change only in a call that finds an unread result
\* and marks it read.
C6_PollAndClear ==
  /\ [](\A i, j \in 1..Len(consumed) : i # j => consumed[i].cycle # consumed[j].cycle)
  /\ [][(out' # out \/ consumed' # consumed)
          => (latest_result_.valid /\ ~latest_result_'.valid /\ consumed' # consumed)]_vars

\* a result has been returned and the mailbox is read: the next call returns
\* false
C6_Witness ==
  /\ Len(consumed) >= 1
  /\ ~latest_result_.valid
  /\ out.cycle = consumed[Len(consumed)].cycle
  /\ vpc = "idle"

\* C7: an unread result in the mailbox is that of the most recently completed
\* cycle, so a successful TryConsumeLatest returns it, and the cycles returned
\* are strictly increasing: an older unread result is never returned later.
C7_LatestWins ==
  /\ latest_result_.valid => latest_result_.cycle = cycles
  /\ \A i \in 1..Len(consumed) : \A j \in 1..Len(consumed) :
       i < j => consumed[i].cycle < consumed[j].cycle

\* two cycles completed in one run before the first successful
\* TryConsumeLatest, which returned the second
C7_Witness ==
  /\ starts = 1
  /\ wpc[1] \notin {"none", "exited"}
  /\ Len(consumed) = 1
  /\ consumed[1].cycle = 2

\* C8: when Stop has returned and no SubmitFrame overlapped it, the worker
\* thread has exited, the queue is empty, the mailbox holds no unread result,
\* IsRunning() is false and the track set is empty.
C8_StopLeavesNothing ==
  (cpc = "idle" /\ ~IsRunning /\ stopClean) =>
    /\ Live = {}
    /\ worker_thread_ = 0
    /\ QueueSize = 0
    /\ ~latest_result_.valid
    /\ tracks_ = << >>

\* Stop has returned after a run in which the worker created a track
C8_Witness ==
  /\ cpc = "idle" /\ ~IsRunning /\ stopClean
  /\ starts >= 1
  /\ cycles >= 1
  /\ next_track_id_ > 1

\* C9: after a Stop followed by a successful Start the first track created
\* receives id 1.
C9_RestartIdsFromOne == firstId \in {0, 1}

\* C10: Stop never interrupts a cycle: a worker that has left WorkerLoop has
\* written the result of every cycle it began, and once Stop's join has
\* returned no worker thread is live.
C10_StopNeverInterrupts ==
  /\ \A w \in Workers : wpc[w] = "exited" => task[w] = NoTask
  /\ Live = {} => begun = cycles
  /\ cpc \in {"stop_clearq", "stop_clearr", "stop_finish"} => Live = {}

\* a stop request is pending, Stop waits in join, and the worker is still
\* inside the cycle it had begun
C10_Witness ==
  /\ cpc = "stop_join"
  /\ stop_requested_
  /\ worker_thread_ # 0
  /\ wpc[worker_thread_] = "publish"

\* the cycle of worker w has returned from RunInference through its
\* catch (...): it got past the empty-frame test (it read inference_width)
\* and never reached tracker_.Update (it read none of the other values)
CycleThrew(w) ==
  /\ wpc[w] = "publish"
  /\ used[w].inference_width # -1
  /\ used[w].max_faces = -1

\* C11: a cycle in which detection or classification throws empties the
\* track set and returns no faces, still publishes a valid packet with an
\* empty face list and the frame's timestamp, and the worker returns to the
\* head of its loop for the next frame.
C11_ThrowingCycleFindsNothing ==
  /\ [](\A w \in Workers : CycleThrew(w) => (tracks_ = << >> /\ detections[w] = << >>))
  /\ [][\A w \in Workers :
          (CycleThrew(w) /\ wpc'[w] # wpc[w])
            => /\ latest_result_'.valid
               /\ latest_result_'.faces = << >>
               /\ latest_result_'.timestamp_ns = task[w].timestamp_ns
               /\ wpc'[w] = "lock"]_vars

\* in one run a cycle created a track and the next cycle threw
C11_Witness ==
  /\ starts = 1
  /\ next_track_id_ > 1
  /\ cycles >= 1
  /\ \E w \in Workers : CycleThrew(w)

\* C12: an exception raised at any step of a cycle (the downscale, detection,
\* classification or the tracker update) is caught inside the cycle, so no
\* worker thread is ever ended by a per-frame failure.
C12_NoFailureEndsTheWorker == Terminated = {}

Rejectable(t) == FrameEmpty(t) \/ t.source_width = 0 \/ t.source_height = 0

\* C14: a SubmitFrame call whose frame is empty, or whose source width or
\* height is zero, is rejected at submission: such a frame is never in the
\* queue and no cycle is ever run for it.
C14_RejectedAtSubmission ==
  /\ \A i \in 1..Len(queue_) : ~Rejectable(queue_[i])
  /\ \A w \in InFlight : ~Rejectable(task[w])

\* ----------------------------------------------------- claims on FaceTracker
\* the last call was an Update
Updated == lastCall.kind = "Update"

\* the track ids of a sequence of tracks or faces, in order
IdsOf(seq) == [i \in 1..Len(seq) |-> seq[i].track_id]

\* no value occurs twice in the sequence
Distinct(seq) == \A i \in 1..Len(seq) : \A j \in 1..Len(seq) : i # j => seq[i] # seq[j]

\* C15: after every Update called with max_faces in 1..3, whatever the number
\* of detections, the number of live tracks and the number of output faces
\* are both at most max_faces.
C15_AtMostMaxFaces ==
  (Updated /\ lastCall.max_faces \in 1..3)
    => /\ Len(tracks_) <= lastCall.max_faces
       /\ Len(lastCall.faces) <= lastCall.max_faces

\* an Update with four detections and max_faces = 2 has left two tracks
C15_Witness ==
  /\ Updated
  /\ Len(lastCall.detections) = 4
  /\ lastCall.max_faces = 2
  /\ Len(tracks_) = 2
  /\ Len(lastCall.faces) = 2

\* the detections (box and raw vector) the faces of the last Update carry
FaceDetections == [i \in 1..Len(lastCall.faces) |->
                     [bbox |-> lastCall.faces[i].bbox,
                      probs_raw |-> lastCall.faces[i].probs_raw]]

\* C16: in every Update the assignment is one-to-one: each kept detection
\* (the max(1, max_faces) largest) yields exactly one output face, no
\* detection yields two, the track ids of one output are pairwise distinct
\* (so no track is matched to two detections), and the live tracks are
\* exactly the tracks of the output faces.
C16_AssignmentOneToOne ==
  Updated =>
    /\ Len(lastCall.faces) = Min(Len(lastCall.detections), Max(1, lastCall.max_faces))
    /\ Distinct(FaceDetections)
    /\ \A i \in 1..Len(lastCall.faces) :
         \E k \in 1..Len(lastCall.detections) : FaceDetections[i] = lastCall.detections[k]
    /\ Distinct(IdsOf(lastCall.faces))
    /\ Distinct(IdsOf(tracks_))
    /\ {tracks_[i].track_id : i \in 1..Len(tracks_)}
         = {lastCall.faces[i].track_id : i \in 1..Len(lastCall.faces)}

\* an Update found three tracks, two of which overlap its single detection by
\* more than the threshold; one face came out
C16_Witness ==
  /\ Updated
  /\ Len(lastCall.tracks_before) = 3
  /\ lastCall.detections = << DetC >>
  /\ Len(lastCall.faces) = 1
  /\ lastCall.faces[1].track_id \in {lastCall.tracks_before[i].track_id : i \in 1..3}

\* C17: across any sequence of Updates, zero-detection Updates and Resets,
\* every newly created track receives an id strictly greater than every id
\* issued before, so no id is given to two tracks.
C17_IdsStrictlyIncrease ==
  \A i \in 1..Len(issued) : \A j \in 1..Len(issued) : i < j => issued[i] < issued[j]

\* a track was created, the track set was emptied (by a Reset or an Update
\* without detections), and a further track has been created
C17_Witness ==
  /\ Updated
  /\ lastCall.tracks_before = << >>
  /\ lastCall.next_id_before > 1
  /\ Len(issued) >= 2
  /\ issued[Len(issued)] = lastCall.next_id_before

\* C18: an Update with zero detections empties the whole track set and
\* returns an empty output, whatever tracks existed before.
C18_NoDetectionsClearsAll ==
  (Updated /\ lastCall.detections = << >>)
    => (tracks_ = << >> /\ lastCall.faces = << >>)

\* an Update without detections found two tracks
C18_Witness ==
  /\ Updated
  /\ lastCall.detections = << >>
  /\ Len(lastCall.tracks_before) = 2
  /\ tracks_ = << >>

\* the unit cells of a rectangle
Cells(r) == {<< x, y >> : x \in r.x..(r.x + r.width - 1), y \in r.y..(r.y + r.height - 1)}

\* IoU(a, b) > 0.2, on the cells of the two rectangles
OverlapAboveThreshold(a, b) ==
  5 * Cardinality(Cells(a) \cap Cells(b)) > Cardinality(Cells(a) \cup Cells(b))

\* C19: with exactly one existing track at box A and one detection at box B,
\* if IoU(A, B) > 0.2 the output face for B carries the track's id and no id
\* is issued; if IoU(A, B) <= 0.2 the output face carries a newly issued id
\* and the old track is gone from the track set.
C19_MatchAboveThreshold ==
  (Updated /\ Len(lastCall.tracks_before) = 1 /\ Len(lastCall.detections) = 1)
    => /\ Len(lastCall.faces) = 1
       /\ Len(tracks_) = 1
       /\ lastCall.faces[1].bbox = lastCall.detections[1].bbox
       /\ tracks_[1].track_id = lastCall.faces[1].track_id
       /\ IF OverlapAboveThreshold(lastCall.tracks_before[1].bbox, lastCall.detections[1].bbox)
          THEN /\ lastCall.faces[1].track_id = lastCall.tracks_before[1].track_id
               /\ next_track_id_ = lastCall.next_id_before
          ELSE /\ lastCall.faces[1].track_id = lastCall.next_id_before
               /\ lastCall.faces[1].track_id # lastCall.tracks_before[1].track_id
               /\ next_track_id_ = lastCall.next_id_before + 1

\* the boundary: one track at BoxA, one detection at BoxB, IoU exactly 0.2,
\* and a new id has been issued
C19_Witness ==
  /\ Updated
  /\ Len(lastCall.tracks_before) = 1
  /\ lastCall.tracks_before[1].bbox = BoxA
  /\ lastCall.detections = << DetB >>
  /\ next_track_id_ = lastCall.next_id_before + 1

\* C20: with smoothing_seconds = 0 every matched track's smoothed vector
\* equals, after the Update, the raw vector of the detection it was matched
\* to, whatever its previous smoothed vector and the elapsed time.
C20_NoSmoothingTakesRaw ==
  (Updated /\ lastCall.smoothing_seconds = 0)
    => \A i \in 1..Len(tracks_) : \A k \in 1..Len(lastCall.tracks_before) :
         \A f \in 1..Len(lastCall.faces) :
           (/\ tracks_[i].track_id = lastCall.tracks_before[k].track_id
            /\ lastCall.faces[f].track_id = tracks_[i].track_id)
             => tracks_[i].ema_probs = lastCall.faces[f].probs_raw

\* with smoothing_seconds = 0 a track was matched at the timestamp it was
\* last seen at (no time elapsed) to a detection whose raw vector differs
\* from the track's smoothed vector
C20_Witness ==
  /\ Updated
  /\ lastCall.smoothing_seconds = 0
  /\ \E i \in 1..Len(tracks_) : \E k \in 1..Len(lastCall.tracks_before) :
       /\ tracks_[i].track_id = lastCall.tracks_before[k].track_id
       /\ lastCall.tracks_before[k].ema_probs # tracks_[i].ema_probs
       /\ lastCall.tracks_before[k].last_seen_ns = lastCall.timestamp_ns
       /\ lastCall.timestamp_ns > 0

\* i is the index of the maximum of probs (the first one, if several are equal)
IsArgMax(probs, i) ==
  /\ \A j \in 1..Len(probs) : probs[j] <= probs[i]
  /\ \A j \in 1..(i - 1) : probs[j] < probs[i]

\* C21: after every Update each live track's stable label and confidence
\* are determined by its smoothed vector and the call's threshold: the label
\* is the table entry of the index of the maximum smoothed value, or
\* Incertain when that maximum is below the threshold, whichever index won,
\* the confidence is that maximum clamped to [0, 1], and the output face of
\* the track carries the same label and confidence.
C21_LabelFromSmoothedVector ==
  Updated =>
    /\ \A t \in 1..Len(tracks_) : \A i \in 1..kEmotionClassCount :
         IsArgMax(tracks_[t].ema_probs, i)
           => /\ tracks_[t].stable_label
                   = IF tracks_[t].ema_probs[i] < lastCall.confidence_threshold
                     THEN "Incertain"
                     ELSE EmotionFromModelIndex(i - 1)
              /\ tracks_[t].stable_conf = Max(0, Min(Q, tracks_[t].ema_probs[i]))
    /\ \A t \in 1..Len(tracks_) : \A f \in 1..Len(lastCall.faces) :
         lastCall.faces[f].track_id = tracks_[t].track_id
           => /\ lastCall.faces[f].label = tracks_[t].stable_label
              /\ lastCall.faces[f].confidence = tracks_[t].stable_conf

\* a track whose largest smoothed value, on Neutre, is below the threshold
\* carries Incertain
C21_Witness ==
  /\ Updated
  /\ \E t \in 1..Len(tracks_) :
       /\ IsArgMax(tracks_[t].ema_probs, 1)
       /\ tracks_[t].ema_probs[1] > 0
       /\ tracks_[t].ema_probs[1] < lastCall.confidence_threshold
       /\ tracks_[t].stable_label = "Incertain"
       /\ lastCall.faces[1].label = "Incertain"

\* the call of NormalizeEmotionOutput has returned
Returned == normalized # << >>

\* all values within [-0.001, 1.001] and their sum within [0.85, 1.15]
ProbabilityLike(v) ==
  /\ \A i \in 1..kEmotionClassCount : v[i] >= -1 /\ v[i] <= Q + 1
  /\ SumVec(v) >= 850
  /\ SumVec(v) <= 1150

\* sum of the values of v clamped to [0, 1]
ClampedSum(v) == SumVec([i \in 1..kEmotionClassCount |-> Max(0, Min(Q, v[i]))])

\* C22: for an input with all values within [-0.001, 1.001] and sum within
\* [0.85, 1.15], NormalizeEmotionOutput returns clamp(v_i, 0, 1) divided by
\* the sum of the clamped values: every output is in [0, 1], the outputs sum
\* to 1 (up to the rounding of the eight divisions) and are proportional to
\* the clamped inputs.
C22_ProbabilityLikeIsRescaled ==
  (Returned /\ ProbabilityLike(model_output)) =>
    /\ \A i \in 1..kEmotionClassCount :
         /\ normalized[i] = (Max(0, Min(Q, model_output[i])) * Q) \div ClampedSum(model_output)
         /\ normalized[i] >= 0 /\ normalized[i] <= Q
    /\ SumVec(normalized) <= Q
    /\ SumVec(normalized) >= Q - kEmotionClassCount

\* the same statement for sums strictly between 0.85 and 1.15, which is the
\* range the probability test of the code accepts
C22_StrictlyInsideIsRescaled ==
  (/\ Returned
   /\ ProbabilityLike(model_output)
   /\ SumVec(model_output) > 850
   /\ SumVec(model_output) < 1150) =>
    /\ \A i \in 1..kEmotionClassCount :
         /\ normalized[i] = (Max(0, Min(Q, model_output[i])) * Q) \div ClampedSum(model_output)
         /\ normalized[i] >= 0 /\ normalized[i] <= Q
    /\ SumVec(normalized) <= Q
    /\ SumVec(normalized) >= Q - kEmotionClassCount

\* an input that sums to 0.85 exactly has been normalized
C22_OnTheLimit == Returned /\ ProbabilityLike(model_output) /\ SumVec(model_output) = 850

\* the positions at which the control thread is about to call tracker_.Reset()
ResetPcs == {"stop_finish", "start_spawn"}

\* the worker threads inside RunInference, where the tracker is used
InTracker == {w \in Workers : wpc[w] = "infer"}

\* C23: the tracker is never accessed by two threads at once: while a worker
\* thread is alive it is the only live thread and only it changes the track
\* set and the id counter, inside RunInference; the control thread is at a
\* tracker reset of Start or Stop only when no worker thread is alive, and
\* only then does it change them.
C23_TrackerHasOneUser ==
  /\ [](cpc \in ResetPcs => Live = {})
  /\ [](Cardinality(Live) <= 1 /\ InTracker \subseteq Live)
  /\ [][(tracks_' # tracks_ \/ next_track_id_' # next_track_id_)
          => \/ cpc \in ResetPcs /\ cpc' # cpc /\ Live = {}
             \/ /\ \E w \in InTracker : Live = {w} /\ wpc'[w] # "infer"
                /\ cpc' = cpc]_vars

\* Stop is about to reset a tracker that holds tracks, after the thread that
\* made them has exited
C23_Witness ==
  /\ cpc = "stop_finish"
  /\ tracks_ # << >>
  /\ Live = {}
  /\ \E w \in Workers : wpc[w] = "exited"

\* C24: with the filter's default settings a frame is submitted to the
\* worker only if its timestamp is at least 1/15 second after the timestamp
\* of the frame submitted before it.
C24_DefaultThrottleIs15Fps ==
  [][(sent' # sent /\ sent # 0 /\ filter_config_ = UpdatedConfig(DefaultSettings))
       => sent' - sent >= FrameHz \div 15]_vars

\* the step is a FilterVideo call that takes a result out of the mailbox
Consumes == worker_.latest_result.valid /\ ~worker_'.latest_result.valid

\* C25: a cycle that keeps no detection publishes an empty face list; the
\* FilterVideo call that consumes an empty result leaves latest_faces_ empty
\* and draws nothing; latest_faces_ changes only by consuming a result, to
\* that result's faces; and every face drawn is a face of latest_faces_.  So
\* no face of an earlier result is drawn from that call until a later result
\* with faces is consumed.
C25_FaceLossHidesOverlay ==
  /\ []((worker_.latest_result.valid /\ found = 0) => worker_.latest_result.faces = << >>)
  /\ [][(Consumes /\ worker_.latest_result.faces = << >>)
          => (latest_faces_' = << >> /\ drawn' = << >>)]_vars
  /\ [][latest_faces_' # latest_faces_
          => (Consumes /\ latest_faces_' = worker_.latest_result.faces)]_vars
  /\ [](\A i \in 1..Len(drawn) : \E j \in 1..Len(latest_faces_) : drawn[i] = latest_faces_[j])

\* a face was drawn, then an empty result was consumed, and a frame that
\* could carry an overlay was returned without any
C25_Witness ==
  /\ shown # << >>
  /\ found = 0
  /\ ~worker_.latest_result.valid
  /\ latest_faces_ = << >>
  /\ drawn = << >>
  /\ filter_config_.enabled /\ filter_config_.show_box

\* the pairs (track of tracks_before, output face) of the last Update in
\* which the face carries the track's id
ObservedPairs ==
  {p \in (1..Len(lastCall.tracks_before)) \X (1..Len(lastCall.faces)) :
     lastCall.faces[p[2]].track_id = lastCall.tracks_before[p[1]].track_id}

\* number of cells two rectangles share, and number of cells they cover
InterCells(a, b) == Cardinality(Cells(a) \cap Cells(b))
UnionCells(a, b) == Cardinality(Cells(a) \cup Cells(b))

\* pair p is taken before pair q: its IoU is higher, or the two are equal
\* and p comes first in track order, then detection order
TakenBefore(tb, db, p, q) ==
  \/ InterCells(tb[p[1]], db[p[2]]) * UnionCells(tb[q[1]], db[q[2]])
       > InterCells(tb[q[1]], db[q[2]]) * UnionCells(tb[p[1]], db[p[2]])
  \/ /\ InterCells(tb[p[1]], db[p[2]]) * UnionCells(tb[q[1]], db[q[2]])
         = InterCells(tb[q[1]], db[q[2]]) * UnionCells(tb[p[1]], db[p[2]])
     /\ (p[1] < q[1] \/ (p[1] = q[1] /\ p[2] <= q[2]))

\* the pairs of a track and a detection both still unassigned
FreePairs(tb, db, assigned) ==
  {p \in (1..Len(tb)) \X (1..Len(db)) :
     \A a \in assigned : a[1] # p[1] /\ a[2] # p[2]}

\* the greedy procedure on track boxes tb and detection boxes db
RECURSIVE Greedy(_, _, _)
GreedyTake(tb, db, assigned, best) ==
  IF OverlapAboveThreshold(tb[best[1]], db[best[2]])
  THEN Greedy(tb, db, assigned \cup {best})
  ELSE assigned

GreedyFrom(tb, db, assigned, free) ==
  IF free = {} THEN assigned
  ELSE GreedyTake(tb, db, assigned,
                  CHOOSE p \in free : \A q \in free : TakenBefore(tb, db, p, q))

Greedy(tb, db, assigned) == GreedyFrom(tb, db, assigned, FreePairs(tb, db, assigned))

\* the boxes of a sequence of tracks or faces
BoxesOf(seq) == [i \in 1..Len(seq) |-> seq[i].bbox]

\* C26: in every Update the association is the result of the greedy
\* procedure on the existing tracks and the kept detections (which the output
\* faces list in area-descending order): repeatedly the free pair of highest
\* IoU, the first in track order then detection order on ties, assigned if
\* its IoU is strictly above 0.2, otherwise stop; and on termination no
\* unassigned track and unassigned detection have IoU > 0.2.
C26_AssociationIsGreedy ==
  Updated =>
    /\ \A i \in 1..Len(lastCall.faces) : \A j \in 1..Len(lastCall.faces) :
         i < j => RectArea(lastCall.faces[i].bbox) >= RectArea(lastCall.faces[j].bbox)
    /\ ObservedPairs = Greedy(BoxesOf(lastCall.tracks_before), BoxesOf(lastCall.faces), {})
    /\ \A p \in FreePairs(BoxesOf(lastCall.tracks_before), BoxesOf(lastCall.faces),
                          ObservedPairs) :
         ~OverlapAboveThreshold(lastCall.tracks_before[p[1]].bbox, lastCall.faces[p[2]].bbox)

\* two tracks, at P and at B2, overlapped the one detection C equally; the
\* first track in track order took it
C26_Witness ==
  /\ Updated
  /\ BoxesOf(lastCall.tracks_before) = << BoxP, BoxB2 >>
  /\ lastCall.detections = << DetC >>
  /\ ObservedPairs = {<< 1, 1 >>}

\* one track at C overlapped two detections, P and B2, equally; the first
\* in detection order took it and the second made a new track
C26_TieInDetections ==
  /\ Updated
  /\ BoxesOf(lastCall.tracks_before) = << BoxC >>
  /\ BoxesOf(lastCall.faces) = << BoxP, BoxB2 >>
  /\ ObservedPairs = {<< 1, 1 >>}

\* the set of track ids of a sequence of tracks or faces
IdSet(seq) == {seq[i].track_id : i \in 1..Len(seq)}

\* the ids given to tracks so far
Issued == {issued[i] : i \in 1..Len(issued)}

\* C27: a track has no way back: after every Update a track that was not
\* matched (no output face carries its id) is absent from the track set, and
\* every id in the track set or in the output of a call was in the track set
\* just before the call or had never been issued, so the id of a dropped
\* track appears in no later cycle.
C27_DroppedForGood ==
  /\ [](Updated => \A k \in 1..Len(lastCall.tracks_before) :
           lastCall.tracks_before[k].track_id \notin IdSet(lastCall.faces)
             => lastCall.tracks_before[k].track_id \notin IdSet(tracks_))
  /\ [][\A id \in IdSet(tracks_') \cup IdSet(lastCall'.faces) :
          id \in IdSet(tracks_) \/ id \notin Issued]_vars

\* an Update with a detection dropped a track whose id had been issued, and
\* made a new track for the detection: the old track at A, the detection at D
C27_Witness ==
  /\ Updated
  /\ lastCall.detections # << >>
  /\ \E k \in 1..Len(lastCall.tracks_before) :
       /\ lastCall.tracks_before[k].track_id \in Issued
       /\ lastCall.tracks_before[k].track_id \notin IdSet(tracks_)
       /\ lastCall.tracks_before[k].track_id \notin IdSet(lastCall.faces)
  /\ \E i \in 1..Len(tracks_) : tracks_[i].track_id >= lastCall.next_id_before
  /\ calls >= 2

\* C28: once Stop has set the stop flag the worker begins no new cycle: no
\* frame is dequeued while stop_requested_ is set, so a frame pending at
\* that moment stays in the queue until Stop clears it.
C28_NoNewCycleAfterStopFlag ==
  [][begun' # begun => ~stop_requested_]_vars

\* the pairs (index in tracks_before, index in tracks_) of a matched track
\* before and after the last Update
MatchedPairs ==
  {p \in (1..Len(lastCall.tracks_before)) \X (1..Len(tracks_)) :
     lastCall.tracks_before[p[1]].track_id = tracks_[p[2]].track_id}

\* the raw vector of the detection the track of id was matched to
RawOf(id) ==
  lastCall.faces[CHOOSE f \in 1..Len(lastCall.faces) : lastCall.faces[f].track_id = id].probs_raw

\* the matched track p was smoothed with an elapsed time of dt_ms
SmoothedOver(p, dt_ms) ==
  tracks_[p[2]].ema_probs
    = EmaBlend(ComputeEmaAlpha(dt_ms, lastCall.smoothing_seconds),
               RawOf(tracks_[p[2]].track_id), lastCall.tracks_before[p[1]].ema_probs)

\* C29 as stated: for a matched track the elapsed time used for smoothing is
\* the cycle's timestamp minus the track's last-seen timestamp, and the
\* 1/15 second default is used only when the track has no prior timestamp.
C29_ElapsedSinceLastSeen ==
  Updated => \A p \in MatchedPairs :
    SmoothedOver(p, IF lastCall.tracks_before[p[1]].last_seen_ns = 0
                    THEN DefaultDtMs
                    ELSE (lastCall.timestamp_ns - lastCall.tracks_before[p[1]].last_seen_ns)
                           * TickMs)

\* C29 amended: the elapsed time is the cycle's timestamp minus the track's
\* last-seen timestamp when the track has a prior timestamp and the cycle's
\* timestamp is not earlier than it; the 1/15 second default is used when
\* the track has no prior timestamp and also when the cycle's timestamp is
\* earlier than the last-seen timestamp.
C29_ElapsedOrDefault ==
  Updated => \A p \in MatchedPairs :
    SmoothedOver(p, IF lastCall.tracks_before[p[1]].last_seen_ns = 0
                       \/ lastCall.timestamp_ns < lastCall.tracks_before[p[1]].last_seen_ns
                    THEN DefaultDtMs
                    ELSE (lastCall.timestamp_ns - lastCall.tracks_before[p[1]].last_seen_ns)
                           * TickMs)

\* a track last seen at tick 2 was matched in a cycle stamped tick 1, with a
\* smoothing time of 0.2 s, and its smoothed vector moved
C29_Witness ==
  /\ Updated
  /\ lastCall.smoothing_seconds = 200
  /\ \E p \in MatchedPairs :
       /\ lastCall.tracks_before[p[1]].last_seen_ns > lastCall.timestamp_ns
       /\ lastCall.timestamp_ns > 0
       /\ tracks_[p[2]].ema_probs # lastCall.tracks_before[p[1]].ema_probs

\* a track last seen at tick 1 was matched one tick later and smoothed over
\* 0.1 s, which differs from smoothing over the default
C29_ForwardCase ==
  /\ Updated
  /\ lastCall.smoothing_seconds = 200
  /\ \E p \in MatchedPairs :
       /\ lastCall.tracks_before[p[1]].last_seen_ns = 1
       /\ lastCall.timestamp_ns = 2
       /\ ~SmoothedOver(p, DefaultDtMs)

\* the output faces of the last Update that carry no id of tracks_before:
\* the kept detections left unmatched, in area-descending order
NewFaces ==
  SelectSeq(lastCall.faces, LAMBDA face : face.track_id \notin IdSet(lastCall.tracks_before))

\* the tracks of tracks_ that carry the id
TracksOf(id) == {i \in 1..Len(tracks_) : tracks_[i].track_id = id}

\* C30: every kept detection left unmatched creates exactly one new track:
\* the new ids are the next unused integers, one per unmatched detection and
\* consecutive in detection (area-descending) order, and each new track has
\* the detection's raw vector as its smoothed vector, the detection's box,
\* and the cycle's timestamp as its last-seen timestamp.
C30_UnmatchedSpawnsOneTrack ==
  Updated =>
    /\ next_track_id_ = lastCall.next_id_before + Len(NewFaces)
    /\ \A n \in 1..Len(NewFaces) :
         /\ NewFaces[n].track_id = lastCall.next_id_before + (n - 1)
         /\ Cardinality(TracksOf(NewFaces[n].track_id)) = 1
         /\ \A i \in TracksOf(NewFaces[n].track_id) :
              /\ tracks_[i].ema_probs = NewFaces[n].probs_raw
              /\ tracks_[i].bbox = NewFaces[n].bbox
              /\ tracks_[i].last_seen_ns = lastCall.timestamp_ns
    /\ Len(tracks_) = Len(lastCall.faces)

\* an Update that found a track matched one detection to it and made two
\* new tracks for two others, with ids already issued before
C30_Witness ==
  /\ Updated
  /\ lastCall.next_id_before > 1
  /\ lastCall.timestamp_ns > 0
  /\ Len(NewFaces) = 2
  /\ Len(lastCall.faces) = 3
  /\ RectArea(NewFaces[1].bbox) > RectArea(NewFaces[2].bbox)

\* the detections of the last Update that no output face carries
LeftOut ==
  {k \in 1..Len(lastCall.detections) :
     \A f \in 1..Len(FaceDetections) : FaceDetections[f] # lastCall.detections[k]}

\* C31: an Update that receives more detections than max_faces (1..3) keeps
\* exactly the max_faces detections of largest area: the output has
\* min(number of detections, max_faces) faces, each of a detection of the
\* call, no detection left out is larger than a kept one, and no track
\* or face stands at the box of a detection left out.
C31_LargestAreasKept ==
  (Updated /\ lastCall.max_faces \in 1..3)
    => /\ Len(lastCall.faces) = Min(Len(lastCall.detections), lastCall.max_faces)
       /\ Len(tracks_) = Len(lastCall.faces)
       /\ Cardinality(LeftOut) = Len(lastCall.detections) - Len(lastCall.faces)
       /\ \A k \in LeftOut :
            /\ \A f \in 1..Len(lastCall.faces) :
                 RectArea(lastCall.detections[k].bbox) <= RectArea(lastCall.faces[f].bbox)
            /\ \A i \in 1..Len(tracks_) : tracks_[i].bbox # lastCall.detections[k].bbox

\* four detections with max_faces = 2: the two largest, D and A, were kept
C31_Witness ==
  /\ Updated
  /\ lastCall.detections = << DetA, DetB, DetC, DetD >>
  /\ lastCall.max_faces = 2
  /\ BoxesOf(lastCall.faces) = << BoxD, BoxA >>
  /\ Cardinality(LeftOut) = 2

\* ------------------------------------------------- claims on RunInference
\* RunInference was called by itself
Ran == ran # NoRun

\* a row the loop does not skip: enough fields, a positive score and a box
\* that is not empty once clipped
ValidRow(row) ==
  /\ ran.scene.cols >= 15
  /\ row.score > 0
  /\ ~RectEmpty(MappedBox(ran.frame, ran.config, row))

\* the rows of the last call that are not skipped, in the detector's order
ValidRows == SelectSeq(ran.scene.rows, ValidRow)

\* the detector or the classifier threw during the last call
Threw ==
  \/ ran.scene.detect_throws
  \/ \E k \in 1..Len(ValidRows) : ValidRows[k].cls.throws

\* C32: in a call on a non-empty frame in which nothing throws, the rows
\* with a non-positive score, with fewer than 15 fields or with an empty
\* clipped box contribute no detection, and every other row of the frame
\* reaches tracker_.Update in that call, in the detector's order.
C32_OnlyBadRowsSkipped ==
  (Ran /\ ~FrameEmpty(ran.frame) /\ ~Threw)
    => /\ lastCall.kind = "Update"
       /\ BoxesOf(lastCall.detections) =
            [i \in 1..Len(ValidRows) |-> MappedBox(ran.frame, ran.config, ValidRows[i])]

\* a row of score 0 came first and the row after it reached the tracker
C32_Witness ==
  /\ Ran
  /\ ran.scene.rows = << RowZero, RowA >>
  /\ lastCall.kind = "Update"
  /\ Len(lastCall.detections) = 1
  /\ Len(lastCall.faces) = 1

\* the rectangle has a positive size and lies inside a frame of the given size
InsideFrame(r, width, height) ==
  /\ r.width > 0 /\ r.height > 0
  /\ r.x >= 0 /\ r.y >= 0
  /\ r.x + r.width <= width
  /\ r.y + r.height <= height

\* C33: every face RunInference returns has a box of positive width and
\* height inside [0, source_width) x [0, source_height) of the call's frame,
\* and its box is the clipped box of a row of that frame whose clipped box
\* is not empty: a row whose rescaled box is empty after clipping gives no
\* face.
C33_BoxesInsideFrame ==
  Ran => \A f \in 1..Len(ran.faces) :
           /\ InsideFrame(ran.faces[f].bbox, ran.frame.source_width, ran.frame.source_height)
           /\ \E k \in 1..Len(ran.scene.rows) :
                /\ ~RectEmpty(MappedBox(ran.frame, ran.config, ran.scene.rows[k]))
                /\ ran.faces[f].bbox = MappedBox(ran.frame, ran.config, ran.scene.rows[k])

\* a box across the corner and a box across the left edge of a 16x16 frame
\* came back clipped
C33_Witness ==
  /\ Ran
  /\ ran.frame.cols = 16 /\ ran.frame.source_width = 16 /\ ran.config = CfgA
  /\ ran.scene.rows = << RowEdge, RowLeft >>
  /\ BoxesOf(ran.faces) = << Rect(0, 8, 3, 3), Rect(14, 13, 2, 3) >>

\* the row whose box lies outside the frame gave no face, the row after it did
C33_OutsideGivesNoFace ==
  /\ Ran
  /\ ran.frame.cols = 16 /\ ran.frame.source_width = 16 /\ ran.config = CfgA
  /\ ran.scene.rows = << RowOut, RowB >>
  /\ BoxesOf(ran.faces) = << Rect(5, 5, 2, 2) >>

\* ------------------------------------------- claims on the normalizer, continued
\* all values within [-0.001, 1.001] and the sum exactly 0.85 or exactly 1.15
OnBandLimit(v) ==
  /\ \A i \in 1..kEmotionClassCount : v[i] >= -1 /\ v[i] <= Q + 1
  /\ SumVec(v) \in {850, 1150}

\* C34: an input whose values are all within [-0.001, 1.001] and whose sum is
\* exactly 0.85 or exactly 1.15 is taken as probabilities: the vector returned
\* is the one of the clamp-and-renormalize path, not the softmax.
C34_BandLimitsTakeClampPath ==
  (Returned /\ OnBandLimit(model_output)) =>
    normalized = DivideBySum(ClampedProbs(model_output), ClampedSum(model_output))

\* what the code does on those inputs: the softmax path
C34_BandLimitsTakeSoftmax ==
  (Returned /\ OnBandLimit(model_output)) =>
    normalized = SoftmaxOf(model_output, ExpsOf(model_output, MaxVec(model_output)))

\* an input that sums to 1.15 exactly has been normalized
C34_OnUpperLimit == Returned /\ OnBandLimit(model_output) /\ SumVec(model_output) = 1150

\* ------------------------------------- claims on RunInference, continued
\* non-negative components that sum to 1, up to the rounding of the eight
\* divisions
SumsToOne(v) ==
  /\ \A i \in 1..kEmotionClassCount : v[i] >= 0
  /\ SumVec(v) <= Q
  /\ SumVec(v) >= Q - kEmotionClassCount

\* C40: every probability vector of a raw detection passed to
\* tracker_.Update has non-negative components summing to 1, whatever the
\* classifier returned for the crop (eight values, fewer, or none).
C40_RawVectorsSumToOne ==
  (Ran /\ lastCall.kind = "Update") =>
    \A k \in 1..Len(lastCall.detections) : SumsToOne(lastCall.detections[k].probs_raw)

\* the same for the calls in which the classifier returned at least one
\* value for every row it was run on
C40_NonEmptyOutputsSumToOne ==
  (/\ Ran
   /\ lastCall.kind = "Update"
   /\ \A k \in 1..Len(ValidRows) : ValidRows[k].cls.output # << >>) =>
    \A k \in 1..Len(lastCall.detections) : SumsToOne(lastCall.detections[k].probs_raw)

\* a classifier output of three values reached the tracker, padded and normalized
C40_ShortOutputReached ==
  /\ Ran
  /\ lastCall.kind = "Update"
  /\ \E k \in 1..Len(ValidRows) : ValidRows[k].cls = ClsShort
  /\ Len(lastCall.detections) = Len(ValidRows)

\* an empty classifier output reached the tracker as eight zeros
C40_ZerosReached ==
  /\ Ran
  /\ lastCall.kind = "Update"
  /\ \E k \in 1..Len(lastCall.detections) : lastCall.detections[k].probs_raw = ZeroProbs

\* ------------------------------------- claims on InferenceWorker, continued
\* C35: the results returned by the successful TryConsumeLatest calls carry
\* the timestamps of distinct frames in submission order (the caller's
\* timestamps increase from one SubmitFrame to the next): each is the
\* timestamp of a frame submitted so far that the queue did not discard,
\* none is returned twice, and none follows the result of a later frame.
C35_ConsumedInSubmissionOrder ==
  /\ \A i \in 1..Len(consumed) :
       /\ consumed[i].timestamp_ns \in 0..vclock
       /\ consumed[i].timestamp_ns \notin dropped
  /\ \A i \in 1..Len(consumed) : \A j \in 1..Len(consumed) :
       i < j => consumed[i].timestamp_ns < consumed[j].timestamp_ns

\* the results of frame 0 and then of frame 1 were consumed
C35_Witness ==
  /\ Len(consumed) = 2
  /\ consumed[1].timestamp_ns = 0
  /\ consumed[2].timestamp_ns = 1

\* a step of worker thread w, whatever the two models do on the frame
WorkerStep(w) ==
  \/ WorkerLock(w)
  \/ WorkerCheck(w)
  \/ WorkerSnapshot(w)
  \/ \E scene \in Scenes : WorkerInfer(w, scene)
  \/ WorkerPublish(w)

\* the worker that holds queue_mutex_ can take a step (and so release it)
HolderCanStep == \E w \in Workers : queue_mutex = w /\ ENABLED WorkerStep(w)

\* C37: no thread takes a mutex while it holds another (a worker holds
\* queue_mutex_ only inside the dequeue block, so it holds none when it takes
\* config_mutex_, result_mutex_ or queue_mutex_ again; the blocks of the
\* other threads take one mutex each), Stop joins while no worker sleeps in
\* the queue wait, and no state is a deadlock: a live worker that is not in
\* the queue wait can take a step, and the video thread inside SubmitFrame
\* and the control thread inside Start or Stop can take a step unless the
\* mutex they need is held by a worker that can, or the control thread is
\* joining a worker that can.
C37_NoNestedLockNoDeadlock ==
  /\ config_mutex = Free /\ result_mutex = Free
  /\ \A w \in Workers : queue_mutex = w => wpc[w] = "check"
  /\ cpc = "stop_join" => Waiting = {}
  /\ \A w \in Live : wpc[w] # "waiting" => ENABLED WorkerStep(w)
  /\ vpc # "idle" => ENABLED SubmitStep \/ HolderCanStep
  /\ cpc # "idle" => \/ ENABLED StopStartStep
                     \/ HolderCanStep
                     \/ cpc = "stop_join" /\ \E w \in Live : ENABLED WorkerStep(w)

\* Stop is joining a worker that is in the middle of a cycle while
\* SubmitFrame is about to take queue_mutex_
C37_Witness ==
  /\ cpc = "stop_join"
  /\ vpc = "submit_push"
  /\ \E w \in Live : wpc[w] = "infer" /\ queue_mutex # w

\* C39: once Stop has returned, QueueSize() is 0 and stays 0 until the next
\* successful Start, also when a SubmitFrame call overlapped the Stop.
C39_StopLeavesQueueEmpty ==
  (cpc = "idle" /\ ~IsRunning) => QueueSize = 0

\* the same for the SubmitFrame calls that do not overlap a Stop or a Start
C39_EmptyWithoutOverlap ==
  (cpc = "idle" /\ ~IsRunning /\ stopClean) => QueueSize = 0

\* Stop has returned and a frame sits in the queue of the stopped worker
C39_FrameLeftBehind ==
  /\ cpc = "idle" /\ ~IsRunning
  /\ Live = {}
  /\ vpc = "idle"
  /\ QueueSize = 1

\* ----------------------------------------------------- claims on progress
\* the frame with this timestamp is pending in the queue
Pending(ts) == \E i \in 1..Len(queue_) : queue_[i].timestamp_ns = ts

\* a valid packet with this timestamp is in the mailbox
Published(ts) == latest_result_.valid /\ latest_result_.timestamp_ns = ts

\* C36: under fair scheduling, a frame that SubmitFrame has put in the queue
\* of the n-th running worker is eventually dequeued and a valid packet with
\* its timestamp is published, unless a later SubmitFrame is made or Stop (by
\* itself or in Start) is called.  The frames are those before the timestamp
\* MaxTs, so that a later SubmitFrame shows as a later timestamp.
C36_NoLostWakeup ==
  \A ts \in 0..(MaxTs - 1) : \A n \in 1..MaxStarts :
    (Pending(ts) /\ IsRunning /\ cpc = "idle" /\ starts = n)
      ~> (Published(ts) \/ vclock > ts \/ cpc # "idle" \/ starts # n)

\* the worker was asleep in the queue wait when the frame was pushed, and no
\* notification has been sent yet
C36_Witness ==
  /\ Pending(0) /\ IsRunning /\ cpc = "idle"
  /\ vpc = "submit_notify"
  /\ \E w \in Workers : wpc[w] = "waiting"

\* the packet of frame 0 is in the mailbox while no later frame was submitted
C36_Published ==
  /\ Published(0) /\ IsRunning /\ cpc = "idle"
  /\ vclock = 0

\* C38: under fair scheduling, with cycles that terminate, every call of
\* Stop (by itself or at the head of Start) returns, also when SubmitFrame
\* calls keep arriving while Stop waits for the worker to exit.
C38_StopTerminates == (cpc = "stop_flag") ~> (cpc \notin StopPcs)

\* the same when frames stop arriving once Stop has been called: Stop
\* returns, or one more SubmitFrame gets a frame into the queue
C38_StopTerminatesIfSubmitsEnd ==
  (cpc = "stop_flag") ~> (cpc \notin StopPcs \/ vpc = "submit_notify")

\* Stop waits at join while the worker runs a cycle and a further frame is
\* pending
C38_JoinBehindPendingFrame ==
  /\ cpc = "stop_join"
  /\ stop_requested_
  /\ QueueSize = 1
  /\ \E w \in Workers : wpc[w] = "infer"

\* the history caps are not reached while the timestamps are bounded
HistoryBelowCap == cycles < HistoryCap /\ begun < HistoryCap /\ Len(consumed) < HistoryCap

====
